---------------------------- MODULE Spec2Model ----------------------------
(***************************************************************************)
(* The command-language front end of Traefik7: the tokenizer               *)
(* (pkg/parser/auto_detect.go), the recursive-descent command parser       *)
(* (pkg/parser/command_parser.go), the command processor with the run      *)
(* loop ParseL7Settings and the two generators (pkg/parser/parser.go).     *)
(*                                                                         *)
(* The conversion of the brace dialect (pkg/parser/f5_parser.go) follows.  *)
(*                                                                         *)
(* Six specifications share the variables: Spec is a run of                *)
(* ParseL7Settings over lines drawn from InputLines, LineSpec is such a    *)
(* run over one line built from a few words, TokSpec is one call of        *)
(* TokenizeCommand taken token by token, TokLiveSpec is that call on       *)
(* short commands with the loop's step taken fairly, GenSpec is the        *)
(* generation step of main over collections drawn from bounded sets, and   *)
(* F5Spec is convertF5ToTraefikFormat over nodes, pools and virtuals       *)
(* drawn from bounded sets.                                                *)
(*                                                                         *)
(* A Go string is modelled as the sequence of its bytes, an ASCII byte     *)
(* being a one-character string and a byte above 0x7F a string that names  *)
(* its value ("xC3"), so "" is << >> and s[i] of Go is s[i+1] here.  A Go    *)
(* error is modelled as the sequence of the fragments of its message, nil  *)
(* being << >>.                                                            *)
(***************************************************************************)
EXTENDS Integers, Sequences, FiniteSets, TLC

(***************************************************************************)
(* Characters (package unicode): the ASCII range and two bytes above it.   *)
(***************************************************************************)
LowerLetters == {"a", "b", "c", "d", "e", "f", "g", "h", "i", "j", "k", "l", "m", "n", "o", "p", "q", "r", "s", "t", "u", "v", "w", "x", "y", "z"}

UpperLetters == {"A", "B", "C", "D", "E", "F", "G", "H", "I", "J", "K", "L", "M", "N", "O", "P", "Q", "R", "S", "T", "U", "V", "W", "X", "Y", "Z"}

Digits == {"0", "1", "2", "3", "4", "5", "6", "7", "8", "9"}

\* t.current = 0: the tokenizer's end-of-input marker
NUL == "NUL"

\* The tokenizer reads bytes, rune(t.input[t.pos]), so a byte above 0x7F is
\* taken for the code point of the same value: 0xC3 for U+00C3 and 0xAA for
\* U+00AA, both letters (C3 AA is the UTF-8 encoding of U+00EA).
Latin1Letters == {"xC3", "xAA"}

IsLetter(c) == c \in LowerLetters \cup UpperLetters \cup Latin1Letters

\* utf8.EncodeRune: the bytes strings.Builder.WriteRune and the %c verb
\* write for a code point below U+0100
EncodeRune(c) ==
    IF c = "xC3" THEN <<"xC3", "x83">>
    ELSE IF c = "xAA" THEN <<"xC2", "xAA">>
    ELSE <<c>>

\* result.WriteRune(c)
WriteRune(result, c) == result \o EncodeRune(c)

IsDigit(c) == c \in Digits

IsSpace(c) == c \in {" ", "\t", "\n", "\r"}

LowerOf ==
    ("A" :> "a") @@ ("B" :> "b") @@ ("C" :> "c") @@ ("D" :> "d") @@ ("E" :> "e") @@ ("F" :> "f") @@ ("G" :> "g") @@ ("H" :> "h") @@ ("I" :> "i") @@ ("J" :> "j") @@ ("K" :> "k") @@ ("L" :> "l") @@ ("M" :> "m") @@ ("N" :> "n") @@ ("O" :> "o") @@ ("P" :> "p") @@ ("Q" :> "q") @@ ("R" :> "r") @@ ("S" :> "s") @@ ("T" :> "t") @@ ("U" :> "u") @@ ("V" :> "v") @@ ("W" :> "w") @@ ("X" :> "x") @@ ("Y" :> "y") @@ ("Z" :> "z")

\* strings.ToLower
RECURSIVE ToLower(_)
ToLower(s) ==
    IF s = << >> THEN << >>
    ELSE <<IF Head(s) \in DOMAIN LowerOf THEN LowerOf[Head(s)] ELSE Head(s)>>
         \o ToLower(Tail(s))

\* strings.ReplaceAll(s, old, "") for a one-character old
RECURSIVE RemoveAll(_, _)
RemoveAll(s, c) ==
    IF s = << >> THEN << >>
    ELSE (IF Head(s) = c THEN << >> ELSE <<Head(s)>>) \o RemoveAll(Tail(s), c)

\* strings.HasPrefix
HasPrefix(s, p) == Len(s) >= Len(p) /\ SubSeq(s, 1, Len(p)) = p

\* mutant: only the end of the line is trimmed
RECURSIVE TrimEnd(_)
TrimEnd(s) ==
    IF s # << >> /\ IsSpace(s[Len(s)]) THEN TrimEnd(SubSeq(s, 1, Len(s) - 1))
    ELSE s

RECURSIVE TrimLeft(_)
TrimLeft(s) ==
    IF s # << >> /\ IsSpace(Head(s)) THEN TrimLeft(Tail(s)) ELSE s

RECURSIVE TrimRight(_)
TrimRight(s) ==
    IF s # << >> /\ IsSpace(s[Len(s)]) THEN TrimRight(SubSeq(s, 1, Len(s) - 1))
    ELSE s

\* strings.TrimSpace
TrimSpace(s) == TrimRight(TrimLeft(s))

\* strings.Split(s, sep) for a one-character sep: cur is the part being read
RECURSIVE SplitFrom(_, _, _)
SplitFrom(s, sep, cur) ==
    IF s = << >> THEN <<cur>>
    ELSE IF Head(s) = sep THEN <<cur>> \o SplitFrom(Tail(s), sep, << >>)
    ELSE SplitFrom(Tail(s), sep, Append(cur, Head(s)))

Split(s, sep) == SplitFrom(s, sep, << >>)

\* strings.Join(parts, " ")
RECURSIVE JoinSpace(_)
JoinSpace(parts) ==
    IF parts = << >> THEN << >>
    ELSE IF Len(parts) = 1 THEN parts[1]
    ELSE parts[1] \o <<" ">> \o JoinSpace(Tail(parts))

(***************************************************************************)
(* Tokenizer (auto_detect.go).  A token type is named by its Go constant.  *)
(***************************************************************************)
Token(type, value, line, column) ==
    [Type |-> type, Value |-> value, Line |-> line, Column |-> column]

\* the keyword switch of getKeywordType: lower-cased text -> token type
KeywordTable ==
    (<<"a","d","d">> :> "TokenAdd") @@
    (<<"b","i","n","d">> :> "TokenBind") @@
    (<<"s","e","t">> :> "TokenSet") @@
    (<<"u","n","b","i","n","d">> :> "TokenUnbind") @@
    (<<"r","e","m","o","v","e">> :> "TokenRemove") @@
    (<<"l","i","n","k">> :> "TokenLink") @@
    (<<"s","e","r","v","e","r">> :> "TokenServer") @@
    (<<"l","b">> :> "TokenLB") @@
    (<<"v","s","e","r","v","e","r">> :> "TokenVServer") @@
    (<<"s","e","r","v","i","c","e","g","r","o","u","p">> :> "TokenServiceGroup") @@
    (<<"m","o","n","i","t","o","r">> :> "TokenMonitor") @@
    (<<"a","u","d","i","t">> :> "TokenAudit") @@
    (<<"a","u","t","h","e","n","t","i","c","a","t","i","o","n">> :> "TokenAuthentication") @@
    (<<"c","a","c","h","e">> :> "TokenCache") @@
    (<<"c","s">> :> "TokenCS") @@
    (<<"d","n","s">> :> "TokenDNS") @@
    (<<"r","o","u","t","e">> :> "TokenRoute") @@
    (<<"r","e","s","p","o","n","d","e","r">> :> "TokenResponder") @@
    (<<"r","e","w","r","i","t","e">> :> "TokenRewrite") @@
    (<<"p","o","l","i","c","y">> :> "TokenPolicy") @@
    (<<"p","o","l","i","c","y","l","a","b","e","l">> :> "TokenPolicyLabel") @@
    (<<"a","c","t","i","o","n">> :> "TokenAction") @@
    (<<"c","o","n","t","e","n","t","g","r","o","u","p">> :> "TokenContentGroup") @@
    (<<"n","a","m","e","s","e","r","v","e","r">> :> "TokenNameServer") @@
    (<<"a","d","d","r","e","c">> :> "TokenAddRec") @@
    (<<"n","s","r","e","c">> :> "TokenNSRec") @@
    (<<"s","s","l">> :> "TokenSSL") @@
    (<<"s","y","s","t","e","m">> :> "TokenSystem") @@
    (<<"t","m">> :> "TokenTM") @@
    (<<"t","u","n","n","e","l">> :> "TokenTunnel") @@
    (<<"a","a","a">> :> "TokenAAA") @@
    (<<"a","p","p","f","l","o","w">> :> "TokenAppflow") @@
    (<<"c","m","p">> :> "TokenCMP") @@
    (<<"n","s">> :> "TokenNS") @@
    (<<"s","u","b","s","c","r","i","b","e","r">> :> "TokenSubscriber") @@
    (<<"v","p","n">> :> "TokenVPN") @@
    (<<"d","b">> :> "TokenDB") @@
    (<<"n","s","l","o","g","a","c","t","i","o","n">> :> "TokenNslogAction") @@
    (<<"s","y","s","l","o","g","a","c","t","i","o","n">> :> "TokenSyslogAction") @@
    (<<"s","y","s","l","o","g","p","o","l","i","c","y">> :> "TokenSyslogPolicy") @@
    (<<"n","o","a","u","t","h","a","c","t","i","o","n">> :> "TokenNoAuthAction") @@
    (<<"t","a","c","a","c","s","a","c","t","i","o","n">> :> "TokenTacacsAction") @@
    (<<"t","a","c","a","c","s","p","o","l","i","c","y">> :> "TokenTacacsPolicy") @@
    (<<"c","e","r","t","k","e","y">> :> "TokenCertKey") @@
    (<<"c","m","d","p","o","l","i","c","y">> :> "TokenCmdPolicy") @@
    (<<"n","s","l","o","g","g","l","o","b","a","l">> :> "TokenNslogGlobal") @@
    (<<"s","y","s","l","o","g","g","l","o","b","a","l">> :> "TokenSyslogGlobal") @@
    (<<"g","l","o","b","a","l">> :> "TokenGlobal") @@
    (<<"p","a","t","s","e","t">> :> "TokenPatset") @@
    (<<"s","e","r","v","i","c","e">> :> "TokenService") @@
    (<<"u","s","e","r">> :> "TokenUser") @@
    (<<"g","r","o","u","p">> :> "TokenGroup") @@
    (<<"p","a","r","a","m","e","t","e","r">> :> "TokenParam") @@
    (<<"p","a","r","a","m">> :> "TokenParam") @@
    (<<"d","i","a","m","e","t","e","r">> :> "TokenDiameter") @@
    (<<"e","n","c","r","y","p","t","i","o","n","p","a","r","a","m","s">> :> "TokenEncryptionParams") @@
    (<<"h","t","t","p","p","a","r","a","m">> :> "TokenHttpParam") @@
    (<<"h","t","t","p","p","r","o","f","i","l","e">> :> "TokenHttpProfile") @@
    (<<"r","p","c","n","o","d","e">> :> "TokenRpcNode") @@
    (<<"t","c","p","b","u","f","p","a","r","a","m">> :> "TokenTcpbufParam") @@
    (<<"g","x","i","n","t","e","r","f","a","c","e">> :> "TokenGxInterface")

\* the element of a one-element set: The({e(x) : x \in {v}}) is e(v), with v
\* evaluated once, as a Go local is
The(S) == CHOOSE x \in S : TRUE

\* rune(t.input[t.pos]) or 0, then the position and line/column bookkeeping
readChar(t) ==
    The({LET c == IF x.pos >= Len(x.input) THEN NUL ELSE x.input[x.pos + 1]
         IN [x EXCEPT !.current = c,
                      !.pos = x.pos + 1,
                      !.line = IF c = "\n" THEN x.line + 1 ELSE x.line,
                      !.column = IF c = "\n" THEN 1 ELSE x.column + 1] : x \in {t}})

NewTokenizer(input) ==
    readChar([input |-> input, pos |-> 0, line |-> 1, column |-> 1,
              current |-> NUL])

RECURSIVE skipWhitespace(_)
skipWhitespace(t) ==
    IF IsSpace(t.current) /\ t.current # "\n" THEN skipWhitespace(readChar(t))
    ELSE t

\* the loop of readString: t is past the opening quote, result the text so far
RECURSIVE readStringLoop(_, _, _)
readStringLoop(t, quote, result) ==
    IF t.current # quote /\ t.current # NUL
    THEN IF t.current = "\\"
         THEN LET t1 == readChar(t)
              IN IF t1.current # NUL
                 THEN readStringLoop(readChar(t1), quote, WriteRune(result, t1.current))
                 ELSE readStringLoop(t1, quote, result)
         ELSE readStringLoop(readChar(t), quote, WriteRune(result, t.current))
    ELSE [t |-> IF t.current = quote THEN readChar(t) ELSE t, value |-> result]

readString(t) == readStringLoop(readChar(t), t.current, << >>)

IsIdentifierChar(c) ==
    IsLetter(c) \/ IsDigit(c) \/ c = "_" \/ c = "-" \/ c = ":" \/ c = "."

RECURSIVE readIdentifierLoop(_, _)
readIdentifierLoop(t, result) ==
    IF IsIdentifierChar(t.current)
    THEN readIdentifierLoop(readChar(t), WriteRune(result, t.current))
    ELSE [t |-> t, value |-> result]

readIdentifier(t) == readIdentifierLoop(t, << >>)

RECURSIVE readParameterLoop(_, _)
readParameterLoop(t, result) ==
    IF IsLetter(t.current) \/ IsDigit(t.current) \/ t.current = "_"
    THEN readParameterLoop(readChar(t), WriteRune(result, t.current))
    ELSE [t |-> t, value |-> result]

readParameter(t) == readParameterLoop(readChar(t), <<t.current>>)

isIPAddress(s) ==
    \E parts \in {Split(s, ".")} :
       /\ Len(parts) = 4
       /\ \A i \in 1..Len(parts) :
            /\ Len(parts[i]) # 0
            /\ Len(parts[i]) <= 3
            /\ \A j \in 1..Len(parts[i]) : IsDigit(parts[i][j])

getKeywordType(value) ==
    The({IF lw \in DOMAIN KeywordTable THEN KeywordTable[lw]
         ELSE IF isIPAddress(v) THEN "TokenIP"
         ELSE IF \A i \in 1..Len(v) : IsDigit(v[i]) THEN "TokenNumber"
         ELSE "TokenIdentifier" : v \in {value}, lw \in {ToLower(value)}})

\* NextToken returns the token and the tokenizer after it
RECURSIVE NextToken(_)
NextToken(t0) ==
    LET t == skipWhitespace(t0)
    IN CASE t.current = NUL ->
              [t |-> t, token |-> Token("TokenEOF", << >>, t.line, t.column)]
         [] t.current \in {"\n", "\r"} -> NextToken(readChar(t))
         [] t.current \in {"\"", "'"} ->
              LET r == readString(t)
              IN [t |-> r.t, token |-> Token("TokenString", r.value, t.line, t.column)]
         [] t.current = "-" ->
              LET r == readParameter(t)
              IN [t |-> r.t,
                  token |-> Token("TokenParameterFlag", r.value, t.line, t.column)]
         [] t.current = "." ->
              [t |-> readChar(t),
               token |-> Token("TokenIdentifier", <<".">>, t.line, t.column)]
         [] OTHER ->
              IF IsLetter(t.current) \/ IsDigit(t.current) \/ t.current = "_"
              THEN LET r == readIdentifier(t)
                   IN [t |-> r.t,
                       token |-> Token(getKeywordType(r.value), r.value,
                                       t.line, t.column)]
              ELSE [t |-> readChar(t),
                    token |-> Token("TokenError",
                                    <<"unexpected character: ">> \o EncodeRune(t.current),
                                    t.line, t.column)]

RECURSIVE TokenizeLoop(_, _)
TokenizeLoop(t, tokens) ==
    LET r == NextToken(t)
        toks == Append(tokens, r.token)
    IN IF r.token.Type = "TokenEOF" \/ r.token.Type = "TokenError" THEN toks
       ELSE TokenizeLoop(r.t, toks)

TokenizeCommand(command) == TokenizeLoop(NewTokenizer(command), << >>)

(***************************************************************************)
(* Command parser (command_parser.go).                                     *)
(***************************************************************************)
DigitChars == <<"0", "1", "2", "3", "4", "5", "6", "7", "8", "9">>

\* the %d verb of fmt
RECURSIVE Itoa(_)
Itoa(n) ==
    IF n < 10 THEN <<DigitChars[n + 1]>>
    ELSE Itoa(n \div 10) \o <<DigitChars[(n % 10) + 1]>>

\* Token{Type: TokenEOF}
EOFToken == Token("TokenEOF", << >>, 0, 0)

readToken(p) ==
    IF p.pos < Len(p.tokens)
    THEN [p EXCEPT !.current = p.tokens[p.pos + 1], !.pos = p.pos + 1]
    ELSE [p EXCEPT !.current = EOFToken]

NewCommandParser(tokens) ==
    readToken([tokens |-> tokens, pos |-> 0, current |-> EOFToken])

ActionTokens ==
    {"TokenAdd", "TokenBind", "TokenSet", "TokenUnbind", "TokenRemove", "TokenLink"}

\* mutant: the action is returned in lower case
parseActionLowered(p) ==
    IF p.current.Type \in ActionTokens
    THEN [p |-> readToken(p), value |-> ToLower(p.current.Value), err |-> << >>]
    ELSE [p |-> p, value |-> << >>,
          err |-> <<"expected action (add, bind, set, etc.), got ", p.current.Type,
                    " at line ">> \o Itoa(p.current.Line)]

parseAction(p) ==
    IF p.current.Type \in ActionTokens
    THEN [p |-> readToken(p), value |-> p.current.Value, err |-> << >>]
    ELSE [p |-> p, value |-> << >>,
          err |-> <<"expected action (add, bind, set, etc.), got ", p.current.Type,
                    " at line ">> \o Itoa(p.current.Line)]

\* the case list that lets a token start or extend the object type
ObjectTypeTokens ==
    {"TokenServer", "TokenLB", "TokenVServer", "TokenServiceGroup", "TokenMonitor",
     "TokenAudit", "TokenAuthentication", "TokenCache", "TokenCS", "TokenDNS",
     "TokenRoute", "TokenResponder", "TokenRewrite", "TokenPolicy", "TokenPolicyLabel",
     "TokenAction", "TokenContentGroup", "TokenNameServer", "TokenAddRec", "TokenNSRec",
     "TokenSSL", "TokenSystem", "TokenTM", "TokenTunnel", "TokenAAA", "TokenAppflow",
     "TokenCMP", "TokenNS", "TokenSubscriber", "TokenVPN", "TokenDB",
     "TokenNslogAction", "TokenSyslogAction", "TokenSyslogPolicy",
     "TokenNoAuthAction", "TokenTacacsAction", "TokenTacacsPolicy",
     "TokenCertKey", "TokenCmdPolicy", "TokenNslogGlobal", "TokenSyslogGlobal",
     "TokenGlobal", "TokenPatset", "TokenService", "TokenUser", "TokenGroup",
     "TokenParam", "TokenDiameter", "TokenEncryptionParams", "TokenHttpParam",
     "TokenHttpProfile", "TokenRpcNode", "TokenTcpbufParam", "TokenGxInterface"}

\* isNextObjectType: the types after which the loop goes round again
NextObjectTypeTokens ==
    {"TokenServer", "TokenLB", "TokenVServer", "TokenServiceGroup", "TokenMonitor",
     "TokenAudit", "TokenAuthentication", "TokenCache", "TokenCS", "TokenDNS",
     "TokenRoute", "TokenResponder", "TokenRewrite", "TokenPolicy", "TokenAction",
     "TokenContentGroup", "TokenNameServer", "TokenAddRec", "TokenNSRec", "TokenSSL",
     "TokenSystem", "TokenTM", "TokenTunnel", "TokenAAA", "TokenAppflow", "TokenCMP",
     "TokenNS", "TokenSubscriber", "TokenVPN", "TokenDB", "TokenNslogAction",
     "TokenSyslogAction", "TokenSyslogPolicy", "TokenNoAuthAction",
     "TokenTacacsAction", "TokenTacacsPolicy", "TokenCertKey", "TokenCmdPolicy"}

\* mutant: the loop goes round again on every token that may begin an
\* object type
RECURSIVE parseObjectTypeLoopGreedy(_, _)
parseObjectTypeLoopGreedy(p, parts) ==
    IF p.current.Type \in ObjectTypeTokens \cup {"TokenIdentifier"}
    THEN parseObjectTypeLoopGreedy(readToken(p), Append(parts, p.current.Value))
    ELSE [p |-> p, parts |-> parts]

RECURSIVE parseObjectTypeLoop(_, _)
parseObjectTypeLoop(p, parts) ==
    IF p.current.Type \in ObjectTypeTokens \cup {"TokenIdentifier"}
    THEN LET parts1 == Append(parts, p.current.Value)
             p1 == readToken(p)
         IN IF p1.current.Type = "TokenEOF" \/ p1.current.Type = "TokenParameterFlag"
            THEN [p |-> p1, parts |-> parts1]
            ELSE IF p1.current.Type \notin NextObjectTypeTokens
            THEN [p |-> p1, parts |-> parts1]
            ELSE parseObjectTypeLoop(p1, parts1)
    ELSE [p |-> p, parts |-> parts]

parseObjectType(p) ==
    LET r == parseObjectTypeLoop(p, << >>)
    IN IF Len(r.parts) = 0
       THEN [p |-> r.p, value |-> << >>,
             err |-> <<"expected object type (server, lb vserver, serviceGroup, etc.), got ",
                       r.p.current.Type, " (">> \o r.p.current.Value
                     \o <<") at line ">> \o Itoa(r.p.current.Line)]
       ELSE [p |-> r.p, value |-> JoinSpace(r.parts), err |-> << >>]

parseObjectName(p) ==
    IF p.current.Type \in {"TokenString", "TokenIdentifier", "TokenNumber", "TokenIP"}
    THEN [p |-> readToken(p), value |-> p.current.Value, err |-> << >>]
    ELSE IF /\ p.current.Type # "TokenEOF"
            /\ p.current.Type # "TokenParameterFlag"
            /\ p.current.Value # << >>
    THEN [p |-> readToken(p), value |-> p.current.Value, err |-> << >>]
    ELSE [p |-> p, value |-> << >>,
          err |-> <<"expected object name (string, identifier, number, or IP), got ",
                    p.current.Type, " (">> \o p.current.Value
                  \o <<") at line ">> \o Itoa(p.current.Line)]

RECURSIVE parseArgumentsLoop(_, _)
parseArgumentsLoop(p, args) ==
    IF /\ p.current.Type # "TokenEOF"
       /\ p.current.Type # "TokenParameterFlag"
       /\ p.current.Value # << >>
    THEN parseArgumentsLoop(readToken(p), Append(args, p.current.Value))
    ELSE [p |-> p, value |-> args]

parseArguments(p) == parseArgumentsLoop(p, << >>)

\* a Go map[string]string: a function on the set of its keys
EmptyMap == [k \in {} |-> << >>]

\* m[k] of Go: the zero value "" for a missing key
MapGet(m, k) == IF k \in DOMAIN m THEN m[k] ELSE << >>

\* m[k] = v
MapSet(m, k, v) == (k :> v) @@ m

RECURSIVE parseParametersLoop(_, _)
parseParametersLoop(p, params) ==
    IF p.current.Type = "TokenParameterFlag"
    THEN LET paramName == p.current.Value
             p1 == readToken(p)
         IN IF p1.current.Type \in
                 {"TokenString", "TokenIdentifier", "TokenNumber", "TokenIP"}
            THEN parseParametersLoop(readToken(p1),
                                     MapSet(params, paramName, p1.current.Value))
            ELSE parseParametersLoop(p1, MapSet(params, paramName, << >>))
    ELSE [p |-> p, value |-> params]

parseParameters(p) == parseParametersLoop(p, EmptyMap)

F5Command(action, objectType, name, arguments, parameters) ==
    [Action |-> action, ObjectType |-> objectType, Name |-> name,
     Arguments |-> arguments, Parameters |-> parameters]

\* the value standing for a nil *F5Command
NoCommand == F5Command(<< >>, << >>, << >>, << >>, EmptyMap)

\* a (*F5Command, error) result; tokens is what TokenizeCommand returned for
\* the line, << >> when it was not called
Result(isNil, cmd, err, tokens) ==
    [isNil |-> isNil, cmd |-> cmd, err |-> err, tokens |-> tokens]

ParseCommand(p, tokens) ==
    IF p.current.Type = "TokenEOF"
    THEN Result(TRUE, NoCommand, <<"empty command">>, tokens)
    ELSE LET a == parseAction(p)
         IN IF a.err # << >> THEN Result(TRUE, NoCommand, a.err, tokens)
            ELSE LET o == parseObjectType(a.p)
                 IN IF o.err # << >> THEN Result(TRUE, NoCommand, o.err, tokens)
                    ELSE LET n == parseObjectName(o.p)
                         IN IF n.err # << >> THEN Result(TRUE, NoCommand, n.err, tokens)
                            ELSE LET args == parseArguments(n.p)
                                     pars == parseParameters(args.p)
                                 IN Result(FALSE,
                                           F5Command(a.value, o.value, n.value,
                                                     args.value, pars.value),
                                           << >>, tokens)

\* mutant: only the first token is looked at
HasErrorTokenAtStart(tokens) == tokens[1].Type = "TokenError"

HasErrorToken(tokens) == \E i \in 1..Len(tokens) : tokens[i].Type = "TokenError"

FirstErrorToken(tokens) ==
    tokens[CHOOSE i \in 1..Len(tokens) :
             /\ tokens[i].Type = "TokenError"
             /\ \A j \in 1..(i - 1) : tokens[j].Type # "TokenError"]

ParseF5Command(commandLine0) ==
    LET commandLine == TrimSpace(commandLine0)
    IN IF commandLine = << >> \/ HasPrefix(commandLine, <<"#">>)
       THEN Result(TRUE, NoCommand, << >>, << >>)
       ELSE LET tokens == TokenizeCommand(commandLine)
            IN IF HasErrorToken(tokens)
               THEN Result(TRUE, NoCommand,
                           <<"tokenization error: ">> \o FirstErrorToken(tokens).Value,
                           tokens)
               ELSE ParseCommand(NewCommandParser(tokens), tokens)

(***************************************************************************)
(* Command processor (parser.go).  A handler that takes pointers to the    *)
(* collections returns the collections as it leaves them, and its error.   *)
(***************************************************************************)
ParamComment == <<"-","c","o","m","m","e","n","t">>

ParamMonitorName == <<"-","m","o","n","i","t","o","r","N","a","m","e">>

ParamPolicyName == <<"-","p","o","l","i","c","y","N","a","m","e">>

ParamPriority == <<"-","p","r","i","o","r","i","t","y">>

ParamGotoPriorityExpression == <<"-","g","o","t","o","P","r","i","o","r","i","t","y","E","x","p","r","e","s","s","i","o","n">>

ParamType == <<"-","t","y","p","e">>

ActionAdd == <<"a","d","d">>

ActionBind == <<"b","i","n","d">>

ActionSet == <<"s","e","t">>

TypeServer == <<"s","e","r","v","e","r">>

TypeLBVServer == <<"l","b","v","s","e","r","v","e","r">>

TypeServiceGroup == <<"s","e","r","v","i","c","e","g","r","o","u","p">>

ServerInfo(name, ip, comment) == [Name |-> name, IP |-> ip, Comment |-> comment]

VServerInfo(name, protocol, ip, port) ==
    [Name |-> name, Protocol |-> protocol, IP |-> ip, Port |-> port]

ServiceGroupDef(name, protocol, comment) ==
    [Name |-> name, Protocol |-> protocol, Comment |-> comment]

\* the fields a composite literal leaves out keep their zero values
ServiceGroup(name, serverName, port, comment) ==
    [Name |-> name, ServerName |-> serverName, Port |-> port, Comment |-> comment,
     Disabled |-> FALSE, Ratio |-> 0, LoadBalancingMode |-> << >>]

VServerBinding(vserverName, serviceName, policyName, priority, goto, bindType, comment) ==
    [VServerName |-> vserverName, ServiceName |-> serviceName,
     PolicyName |-> policyName, Priority |-> priority,
     GotoExpression |-> goto, Type |-> bindType, Comment |-> comment]

\* strings.ToLower(strings.ReplaceAll(command.ObjectType, " ", ""))
NormalizeObjectType(objectType) == ToLower(RemoveAll(objectType, " "))

\* mutant: a server without an address is added with the empty address
handleAddServerLenient(command, servers) ==
    [list |-> Append(servers,
                     ServerInfo(command.Name,
                                IF Len(command.Arguments) < 1 THEN << >>
                                ELSE command.Arguments[1],
                                MapGet(command.Parameters, ParamComment))),
     err |-> << >>]

\* mutant: the -comment parameter is not read
handleAddServerWithoutComment(command, servers) ==
    IF Len(command.Arguments) < 1
    THEN [list |-> servers,
          err |-> <<"add server command requires IP address argument">>]
    ELSE [list |-> Append(servers,
                          ServerInfo(command.Name, command.Arguments[1], << >>)),
          err |-> << >>]

\* mutant: the new server is put before the servers already in the list
handleAddServerAtFront(command, servers) ==
    IF Len(command.Arguments) < 1
    THEN [list |-> servers,
          err |-> <<"add server command requires IP address argument">>]
    ELSE [list |-> <<ServerInfo(command.Name, command.Arguments[1],
                                MapGet(command.Parameters, ParamComment))>> \o servers,
          err |-> << >>]

handleAddServer(command, servers) ==
    IF Len(command.Arguments) < 1
    THEN [list |-> servers,
          err |-> <<"add server command requires IP address argument">>]
    ELSE [list |-> Append(servers,
                          ServerInfo(command.Name, command.Arguments[1],
                                     MapGet(command.Parameters, ParamComment))),
          err |-> << >>]

\* mutant: the port is the last positional argument
handleAddLBVServerLastArgument(command, vservers) ==
    IF Len(command.Arguments) < 3
    THEN [list |-> vservers,
          err |-> <<"add lb vserver command requires protocol, IP, and port arguments">>]
    ELSE [list |-> Append(vservers,
                          VServerInfo(command.Name, command.Arguments[1],
                                      command.Arguments[2],
                                      command.Arguments[Len(command.Arguments)])),
          err |-> << >>]

handleAddLBVServer(command, vservers) ==
    IF Len(command.Arguments) < 3
    THEN [list |-> vservers,
          err |-> <<"add lb vserver command requires protocol, IP, and port arguments">>]
    ELSE [list |-> Append(vservers,
                          VServerInfo(command.Name, command.Arguments[1],
                                      command.Arguments[2], command.Arguments[3])),
          err |-> << >>]

handleAddServiceGroup(command, serviceGroupDefs) ==
    LET comment == MapGet(command.Parameters, ParamComment)
        protocol == IF Len(command.Arguments) > 0 THEN command.Arguments[1] ELSE << >>
    IN [list |-> Append(serviceGroupDefs,
                        ServiceGroupDef(command.Name, protocol, comment)),
        err |-> << >>]

\* what handleAddCommand and handleBindCommand leave behind
Outcome(s, v, d, g, b, err) ==
    [servers |-> s, vservers |-> v, serviceGroupDefs |-> d, serviceGroups |-> g,
     vserverBindings |-> b, err |-> err]

\* mutant: an object type add does not know is an error
handleAddCommandStrict(command, s, v, d, g, b) ==
    LET objectType == NormalizeObjectType(command.ObjectType)
    IN CASE objectType = TypeServer ->
              LET r == handleAddServer(command, s)
              IN Outcome(r.list, v, d, g, b, r.err)
         [] objectType = TypeLBVServer ->
              LET r == handleAddLBVServer(command, v)
              IN Outcome(s, r.list, d, g, b, r.err)
         [] objectType = TypeServiceGroup ->
              LET r == handleAddServiceGroup(command, d)
              IN Outcome(s, v, r.list, g, b, r.err)
         [] OTHER -> Outcome(s, v, d, g, b, <<"unknown object type">>)

handleAddCommand(command, s, v, d, g, b) ==
    LET objectType == NormalizeObjectType(command.ObjectType)
    IN CASE objectType = TypeServer ->
              LET r == handleAddServer(command, s)
              IN Outcome(r.list, v, d, g, b, r.err)
         [] objectType = TypeLBVServer ->
              LET r == handleAddLBVServer(command, v)
              IN Outcome(s, r.list, d, g, b, r.err)
         [] objectType = TypeServiceGroup ->
              LET r == handleAddServiceGroup(command, d)
              IN Outcome(s, v, r.list, g, b, r.err)
         [] OTHER -> Outcome(s, v, d, g, b, << >>)

\* mutant: a binding equal to one already in the list is not added again
handleBindServiceGroupDedup(command, serviceGroups) ==
    LET new == ServiceGroup(command.Name, command.Arguments[1], command.Arguments[2],
                            MapGet(command.Parameters, ParamComment))
    IN IF MapGet(command.Parameters, ParamMonitorName) # << >>
       THEN [list |-> serviceGroups, err |-> << >>]
       ELSE IF Len(command.Arguments) < 2
       THEN [list |-> serviceGroups,
             err |-> <<"bind serviceGroup command requires server name and port arguments">>]
       ELSE IF \E i \in 1..Len(serviceGroups) : serviceGroups[i] = new
       THEN [list |-> serviceGroups, err |-> << >>]
       ELSE [list |-> Append(serviceGroups, new), err |-> << >>]

\* mutant: the port may be left out, and is then empty
handleBindServiceGroupPortOptional(command, serviceGroups) ==
    IF MapGet(command.Parameters, ParamMonitorName) # << >>
    THEN [list |-> serviceGroups, err |-> << >>]
    ELSE IF Len(command.Arguments) < 1
    THEN [list |-> serviceGroups,
          err |-> <<"bind serviceGroup command requires server name and port arguments">>]
    ELSE [list |-> Append(serviceGroups,
                          ServiceGroup(command.Name, command.Arguments[1],
                                       IF Len(command.Arguments) < 2 THEN << >>
                                       ELSE command.Arguments[2],
                                       MapGet(command.Parameters, ParamComment))),
          err |-> << >>]

handleBindServiceGroup(command, serviceGroups) ==
    IF MapGet(command.Parameters, ParamMonitorName) # << >>
    THEN [list |-> serviceGroups, err |-> << >>]
    ELSE IF Len(command.Arguments) < 2
    THEN [list |-> serviceGroups,
          err |-> <<"bind serviceGroup command requires server name and port arguments">>]
    ELSE [list |-> Append(serviceGroups,
                          ServiceGroup(command.Name, command.Arguments[1],
                                       command.Arguments[2],
                                       MapGet(command.Parameters, ParamComment))),
          err |-> << >>]

\* mutant: the first argument is taken as the service name unchecked
handleBindLBVServerUnchecked(command, vserverBindings) ==
    LET serviceName ==
            IF Len(command.Arguments) > 0 THEN command.Arguments[1] ELSE << >>
    IN [list |-> Append(vserverBindings,
                        VServerBinding(command.Name, serviceName,
                                       MapGet(command.Parameters, ParamPolicyName),
                                       MapGet(command.Parameters, ParamPriority),
                                       MapGet(command.Parameters,
                                              ParamGotoPriorityExpression),
                                       MapGet(command.Parameters, ParamType),
                                       MapGet(command.Parameters, ParamComment))),
        err |-> << >>]

handleBindLBVServer(command, vserverBindings) ==
    LET serviceName ==
            IF /\ Len(command.Arguments) > 0
               /\ ~HasPrefix(command.Arguments[1], <<"-">>)
            THEN command.Arguments[1] ELSE << >>
    IN [list |-> Append(vserverBindings,
                        VServerBinding(command.Name, serviceName,
                                       MapGet(command.Parameters, ParamPolicyName),
                                       MapGet(command.Parameters, ParamPriority),
                                       MapGet(command.Parameters,
                                              ParamGotoPriorityExpression),
                                       MapGet(command.Parameters, ParamType),
                                       MapGet(command.Parameters, ParamComment))),
        err |-> << >>]

\* mutant: the object type is compared in the case it was written in
handleBindCommandCaseSensitive(command, s, v, d, g, b) ==
    LET objectType == RemoveAll(command.ObjectType, " ")
    IN CASE objectType = TypeServiceGroup ->
              LET r == handleBindServiceGroup(command, g)
              IN Outcome(s, v, d, r.list, b, r.err)
         [] objectType = TypeLBVServer ->
              LET r == handleBindLBVServer(command, b)
              IN Outcome(s, v, d, g, r.list, r.err)
         [] OTHER -> Outcome(s, v, d, g, b, << >>)

handleBindCommand(command, s, v, d, g, b) ==
    LET objectType == NormalizeObjectType(command.ObjectType)
    IN CASE objectType = TypeServiceGroup ->
              LET r == handleBindServiceGroup(command, g)
              IN Outcome(s, v, d, r.list, b, r.err)
         [] objectType = TypeLBVServer ->
              LET r == handleBindLBVServer(command, b)
              IN Outcome(s, v, d, g, r.list, r.err)
         [] OTHER -> Outcome(s, v, d, g, b, << >>)

\* mutant: set server rewrites the comment of the servers of that name
handleSetCommandUpdates(command, s, v, d, g, b) ==
    Outcome([i \in 1..Len(s) |->
                IF s[i].Name = command.Name
                THEN [s[i] EXCEPT !.Comment = MapGet(command.Parameters, ParamComment)]
                ELSE s[i]],
            v, d, g, b, << >>)

handleSetCommand(command, s, v, d, g, b) == Outcome(s, v, d, g, b, << >>)

(***************************************************************************)
(* Generators (parser.go).  A Go map is a function on its keys, so the     *)
(* order in which the code ranges over a map leaves no trace.              *)
(***************************************************************************)
\* for _, x := range xs { m[x.Name] = x }
RECURSIVE IndexByName(_, _)
IndexByName(xs, m) ==
    IF xs = << >> THEN m
    ELSE IndexByName(Tail(xs), MapSet(m, Head(xs).Name, Head(xs)))

\* for _, sg := range serviceGroups { m[sg.Name] = append(m[sg.Name], sg) }
RECURSIVE GroupByName(_, _)
GroupByName(sgs, m) ==
    IF sgs = << >> THEN m
    ELSE GroupByName(Tail(sgs),
                     MapSet(m, Head(sgs).Name, Append(MapGet(m, Head(sgs).Name), Head(sgs))))

TraefikServer(url, comment) == [URL |-> url, Comment |-> comment, Disabled |-> FALSE]

TraefikService(servers, comment) ==
    [LoadBalancer |-> [Servers |-> servers], Comment |-> comment, LoadBalancingMode |-> << >>]

\* fmt.Sprintf("http://%s:%s", ip, port)
ServerURL(ip, port) == <<"h", "t", "t", "p", ":", "/", "/">> \o ip \o <<":">> \o port

\* mutant: the definitions are not consulted
NoDefComment(serviceGroupDefMap, name) == << >>

\* the definition's comment, "" when the name has no definition
DefComment(serviceGroupDefMap, name) ==
    IF name \in DOMAIN serviceGroupDefMap THEN serviceGroupDefMap[name].Comment ELSE << >>

\* the loop over the bindings of one service: the servers and the service
\* comment as the loop leaves them
RECURSIVE TraefikServersLoop(_, _, _, _)
TraefikServersLoop(groups, serverMap, traefiktServers, serviceComment) ==
    IF groups = << >>
    THEN [servers |-> traefiktServers, comment |-> serviceComment]
    ELSE LET group == Head(groups)
         IN IF group.ServerName \in DOMAIN serverMap
            THEN LET serverInfo == serverMap[group.ServerName]
                 IN TraefikServersLoop(
                        Tail(groups), serverMap,
                        Append(traefiktServers,
                               TraefikServer(ServerURL(serverInfo.IP, group.Port),
                                             serverInfo.Comment)),
                        IF serviceComment = << >> /\ group.Comment # << >>
                        THEN group.Comment ELSE serviceComment)
            ELSE TraefikServersLoop(Tail(groups), serverMap, traefiktServers,
                                    serviceComment)

\* mutant: a service is kept when none of its members resolves
GenerateTraefikConfigKeepingEmpty(servers0, vservers0, serviceGroupDefs0, serviceGroups0) ==
    LET serverMap == IndexByName(servers0, EmptyMap)
        serviceGroupDefMap == IndexByName(serviceGroupDefs0, EmptyMap)
        serviceGroupMap == GroupByName(serviceGroups0, EmptyMap)
        built(serviceName) ==
            TraefikServersLoop(serviceGroupMap[serviceName], serverMap, << >>,
                               DefComment(serviceGroupDefMap, serviceName))
    IN [HTTP |-> [Services |->
            [n \in DOMAIN serviceGroupMap |->
                TraefikService(built(n).servers, built(n).comment)]]]

GenerateTraefikConfig(servers0, vservers0, serviceGroupDefs0, serviceGroups0) ==
    LET serverMap == IndexByName(servers0, EmptyMap)
        serviceGroupDefMap == IndexByName(serviceGroupDefs0, EmptyMap)
        serviceGroupMap == GroupByName(serviceGroups0, EmptyMap)
        built(serviceName) ==
            TraefikServersLoop(serviceGroupMap[serviceName], serverMap, << >>,
                               DefComment(serviceGroupDefMap, serviceName))
        named == {n \in DOMAIN serviceGroupMap : Len(built(n).servers) > 0}
    IN [HTTP |-> [Services |->
            [n \in named |-> TraefikService(built(n).servers, built(n).comment)]]]

MappingEntry(key, value, comment) == [Key |-> key, Value |-> value, Comment |-> comment]

\* the first non-empty comment of the bindings, "" when there is none
RECURSIVE FirstComment(_)
FirstComment(groups) ==
    IF groups = << >> THEN << >>
    ELSE IF Head(groups).Comment # << >> THEN Head(groups).Comment
    ELSE FirstComment(Tail(groups))

\* mutant: a virtual server without service group of its name gets no entry
RECURSIVE MappingEntriesLoopBoundOnly(_, _, _, _)
MappingEntriesLoopBoundOnly(vs, serviceGroupDefMap, serviceGroupsByVServer, entries) ==
    IF vs = << >> THEN entries
    ELSE LET vserver == Head(vs)
             key == vserver.IP \o <<":">> \o vserver.Port
             value == vserver.Name \o <<"@", "n", "a", "c", "o", "s", "c", "s">>
             first == DefComment(serviceGroupDefMap, vserver.Name)
             comment == IF first = << >>
                        THEN FirstComment(MapGet(serviceGroupsByVServer, vserver.Name))
                        ELSE first
         IN MappingEntriesLoopBoundOnly(
                Tail(vs), serviceGroupDefMap, serviceGroupsByVServer,
                IF vserver.Name \in DOMAIN serviceGroupDefMap \cup DOMAIN serviceGroupsByVServer
                THEN Append(entries, MappingEntry(key, value, comment))
                ELSE entries)

RECURSIVE MappingEntriesLoop(_, _, _, _)
MappingEntriesLoop(vs, serviceGroupDefMap, serviceGroupsByVServer, entries) ==
    IF vs = << >> THEN entries
    ELSE LET vserver == Head(vs)
             key == vserver.IP \o <<":">> \o vserver.Port
             value == vserver.Name \o <<"@", "n", "a", "c", "o", "s", "c", "s">>
             first == DefComment(serviceGroupDefMap, vserver.Name)
             comment == IF first = << >>
                        THEN FirstComment(MapGet(serviceGroupsByVServer, vserver.Name))
                        ELSE first
         IN MappingEntriesLoop(Tail(vs), serviceGroupDefMap, serviceGroupsByVServer,
                               Append(entries, MappingEntry(key, value, comment)))

GenerateMappingConfig(vservers0, serviceGroupDefs0, serviceGroups0) ==
    [Entries |-> MappingEntriesLoop(vservers0,
                                    IndexByName(serviceGroupDefs0, EmptyMap),
                                    GroupByName(serviceGroups0, EmptyMap),
                                    << >>)]

(***************************************************************************)
(* The run loop ParseL7Settings.  scanner.Text() is an input of the run:   *)
(* each line it returns is drawn from InputLines.                          *)
(***************************************************************************)
InputLines == <<
    \* a server: add server web01 10.0.0.1
    <<"a","d","d"," ","s","e","r","v","e","r"," ","w","e","b","0","1"," ","1","0",".","0",".","0",".","1">>,
    \* a server with a quoted comment: add server web01 10.0.0.1 -comment "web one"
    <<"a","d","d"," ","s","e","r","v","e","r"," ","w","e","b","0","1"," ","1","0",".","0",".","0",".","1"," ","-","c","o","m","m","e","n","t"," ","\"","w","e","b"," ","o","n","e","\"">>,
    \* a double-quoted name with a space: add server "my server" 10.0.0.2
    <<"a","d","d"," ","s","e","r","v","e","r"," ","\"","m","y"," ","s","e","r","v","e","r","\""," ","1","0",".","0",".","0",".","2">>,
    \* a single-quoted name with a space: add server 'my server' 10.0.0.2 -comment c1
    <<"a","d","d"," ","s","e","r","v","e","r"," ","'","m","y"," ","s","e","r","v","e","r","'"," ","1","0",".","0",".","0",".","2"," ","-","c","o","m","m","e","n","t"," ","c","1">>,
    \* a quoted name with a backslash escape: add server "my\ srv" 10.0.0.2
    <<"a","d","d"," ","s","e","r","v","e","r"," ","\"","m","y","\\"," ","s","r","v","\""," ","1","0",".","0",".","0",".","2">>,
    \* a quoted name with an escaped quote: add server 'it\'s a' 10.0.0.2
    <<"a","d","d"," ","s","e","r","v","e","r"," ","'","i","t","\\","'","s"," ","a","'"," ","1","0",".","0",".","0",".","2">>,
    \* no address: add server web01
    <<"a","d","d"," ","s","e","r","v","e","r"," ","w","e","b","0","1">>,
    \* no address, a parameter: add server web01 -comment c1
    <<"a","d","d"," ","s","e","r","v","e","r"," ","w","e","b","0","1"," ","-","c","o","m","m","e","n","t"," ","c","1">>,
    \* surrounding whitespace:   add server web02 10.0.0.2<TAB>
    <<" "," ","a","d","d"," ","s","e","r","v","e","r"," ","w","e","b","0","2"," ","1","0",".","0",".","0",".","2","\t">>,
    \* the action in upper case: ADD server web01 10.0.0.1
    <<"A","D","D"," ","s","e","r","v","e","r"," ","w","e","b","0","1"," ","1","0",".","0",".","0",".","1">>,
    \* the object type in mixed case: add Server web01 10.0.0.1
    <<"a","d","d"," ","S","e","r","v","e","r"," ","w","e","b","0","1"," ","1","0",".","0",".","0",".","1">>,
    \* a keyword where the name is expected: add server monitor 10.0.0.1
    <<"a","d","d"," ","s","e","r","v","e","r"," ","m","o","n","i","t","o","r"," ","1","0",".","0",".","0",".","1">>,
    \* a virtual server: add lb vserver app:80 HTTP 10.0.0.9 80
    <<"a","d","d"," ","l","b"," ","v","s","e","r","v","e","r"," ","a","p","p",":","8","0"," ","H","T","T","P"," ","1","0",".","0",".","0",".","9"," ","8","0">>,
    \* a virtual server with too few arguments: add lb vserver app:80 HTTP
    <<"a","d","d"," ","l","b"," ","v","s","e","r","v","e","r"," ","a","p","p",":","8","0"," ","H","T","T","P">>,
    \* a service group definition: add serviceGroup app:80 HTTP -comment c1
    <<"a","d","d"," ","s","e","r","v","i","c","e","G","r","o","u","p"," ","a","p","p",":","8","0"," ","H","T","T","P"," ","-","c","o","m","m","e","n","t"," ","c","1">>,
    \* a service group definition without protocol: add serviceGroup app:80
    <<"a","d","d"," ","s","e","r","v","i","c","e","G","r","o","u","p"," ","a","p","p",":","8","0">>,
    \* a member binding: bind serviceGroup app:80 web01 80
    <<"b","i","n","d"," ","s","e","r","v","i","c","e","G","r","o","u","p"," ","a","p","p",":","8","0"," ","w","e","b","0","1"," ","8","0">>,
    \* a member binding with a comment: bind serviceGroup app:80 web01 80 -comment c2
    <<"b","i","n","d"," ","s","e","r","v","i","c","e","G","r","o","u","p"," ","a","p","p",":","8","0"," ","w","e","b","0","1"," ","8","0"," ","-","c","o","m","m","e","n","t"," ","c","2">>,
    \* a monitor binding: bind serviceGroup app:80 -monitorName tcp
    <<"b","i","n","d"," ","s","e","r","v","i","c","e","G","r","o","u","p"," ","a","p","p",":","8","0"," ","-","m","o","n","i","t","o","r","N","a","m","e"," ","t","c","p">>,
    \* a monitor binding with member arguments: bind serviceGroup app:80 web01 80 -monitorName tcp -comment c2
    <<"b","i","n","d"," ","s","e","r","v","i","c","e","G","r","o","u","p"," ","a","p","p",":","8","0"," ","w","e","b","0","1"," ","8","0"," ","-","m","o","n","i","t","o","r","N","a","m","e"," ","t","c","p"," ","-","c","o","m","m","e","n","t"," ","c","2">>,
    \* the monitor flag without a value: bind serviceGroup app:80 web01 80 -monitorName
    <<"b","i","n","d"," ","s","e","r","v","i","c","e","G","r","o","u","p"," ","a","p","p",":","8","0"," ","w","e","b","0","1"," ","8","0"," ","-","m","o","n","i","t","o","r","N","a","m","e">>,
    \* the monitor flag followed by a keyword: bind serviceGroup app:80 -monitorName monitor
    <<"b","i","n","d"," ","s","e","r","v","i","c","e","G","r","o","u","p"," ","a","p","p",":","8","0"," ","-","m","o","n","i","t","o","r","N","a","m","e"," ","m","o","n","i","t","o","r">>,
    \* a member binding without arguments: bind serviceGroup app:80
    <<"b","i","n","d"," ","s","e","r","v","i","c","e","G","r","o","u","p"," ","a","p","p",":","8","0">>,
    \* a service binding: bind lb vserver app:80 app:80
    <<"b","i","n","d"," ","l","b"," ","v","s","e","r","v","e","r"," ","a","p","p",":","8","0"," ","a","p","p",":","8","0">>,
    \* a policy-only binding: bind lb vserver app:80 -policyName foo -priority 10
    <<"b","i","n","d"," ","l","b"," ","v","s","e","r","v","e","r"," ","a","p","p",":","8","0"," ","-","p","o","l","i","c","y","N","a","m","e"," ","f","o","o"," ","-","p","r","i","o","r","i","t","y"," ","1","0">>,
    \* a binding with every parameter: bind lb vserver app:80 svc -policyName foo -gotoPriorityExpression END -type REQUEST -comment c3
    <<"b","i","n","d"," ","l","b"," ","v","s","e","r","v","e","r"," ","a","p","p",":","8","0"," ","s","v","c"," ","-","p","o","l","i","c","y","N","a","m","e"," ","f","o","o"," ","-","g","o","t","o","P","r","i","o","r","i","t","y","E","x","p","r","e","s","s","i","o","n"," ","E","N","D"," ","-","t","y","p","e"," ","R","E","Q","U","E","S","T"," ","-","c","o","m","m","e","n","t"," ","c","3">>,
    \* a quoted argument that begins with a dash: bind lb vserver app:80 "-svc"
    <<"b","i","n","d"," ","l","b"," ","v","s","e","r","v","e","r"," ","a","p","p",":","8","0"," ","\"","-","s","v","c","\"">>,
    \* a binding with neither argument nor parameter: bind lb vserver app:80
    <<"b","i","n","d"," ","l","b"," ","v","s","e","r","v","e","r"," ","a","p","p",":","8","0">>,
    \* an empty line: 
    << >>,
    \* a line of whitespace:  <TAB>
    <<" ","\t">>,
    \* a comment: # comment
    <<"#"," ","c","o","m","m","e","n","t">>,
    \* an indented comment:   # add server web01 10.0.0.1
    <<" "," ","#"," ","a","d","d"," ","s","e","r","v","e","r"," ","w","e","b","0","1"," ","1","0",".","0",".","0",".","1">>,
    \* free text: malformed line
    <<"m","a","l","f","o","r","m","e","d"," ","l","i","n","e">>,
    \* a character that starts no token: add server web/01 10.0.0.1
    <<"a","d","d"," ","s","e","r","v","e","r"," ","w","e","b","/","0","1"," ","1","0",".","0",".","0",".","1">>,
    \* an object type add does not handle: add monitor m1 HTTP
    <<"a","d","d"," ","m","o","n","i","t","o","r"," ","m","1"," ","H","T","T","P">>,
    \* an object type bind does not handle: bind cs vserver v1 -policyName p1
    <<"b","i","n","d"," ","c","s"," ","v","s","e","r","v","e","r"," ","v","1"," ","-","p","o","l","i","c","y","N","a","m","e"," ","p","1">>,
    \* a set command: set server web01 -comment c1
    <<"s","e","t"," ","s","e","r","v","e","r"," ","w","e","b","0","1"," ","-","c","o","m","m","e","n","t"," ","c","1">>,
    \* an unbind command: unbind serviceGroup app:80 web01 80
    <<"u","n","b","i","n","d"," ","s","e","r","v","i","c","e","G","r","o","u","p"," ","a","p","p",":","8","0"," ","w","e","b","0","1"," ","8","0">>,
    \* no object name: add server
    <<"a","d","d"," ","s","e","r","v","e","r">>,
    \* a quoted name with bytes above 0x7F (C3 AA, the UTF-8 of U+00EA): add server "\xC3\xAA x" 10.0.0.2
    <<"a","d","d"," ","s","e","r","v","e","r"," ","\"","xC3","xAA"," ","x","\""," ","1","0",".","0",".","0",".","2">>,
    \* a remove command: remove serviceGroup app:80 -comment c1
    <<"r","e","m","o","v","e"," ","s","e","r","v","i","c","e","G","r","o","u","p"," ","a","p","p",":","8","0"," ","-","c","o","m","m","e","n","t"," ","c","1">>,
    \* a link command: link ssl certKey web01 ca01
    <<"l","i","n","k"," ","s","s","l"," ","c","e","r","t","K","e","y"," ","w","e","b","0","1"," ","c","a","0","1">>,
    \* a virtual server in mixed case with a fourth argument and a parameter: add LB VServer app:80 SSL 10.0.0.9 443 extra -comment c1
    <<"a","d","d"," ","L","B"," ","V","S","e","r","v","e","r"," ","a","p","p",":","8","0"," ","S","S","L"," ","1","0",".","0",".","0",".","9"," ","4","4","3"," ","e","x","t","r","a"," ","-","c","o","m","m","e","n","t"," ","c","1">>,
    \* a member binding with one argument: bind serviceGroup app:80 web01
    <<"b","i","n","d"," ","s","e","r","v","i","c","e","G","r","o","u","p"," ","a","p","p",":","8","0"," ","w","e","b","0","1">>,
    \* a member binding in mixed case with a third argument: bind ServiceGroup app:80 web01 80 extra
    <<"b","i","n","d"," ","S","e","r","v","i","c","e","G","r","o","u","p"," ","a","p","p",":","8","0"," ","w","e","b","0","1"," ","8","0"," ","e","x","t","r","a">>,
    \* no object type: add
    <<"a","d","d">>
>>

Lines == {InputLines[i] : i \in 1..Len(InputLines)}

\* the longest input the model reads
MaxLines == 2

VARIABLES
    pc,               \* "start", "scan" (in the loop), "done" (returned);
                      \* "call", "tokenize", "tokenized"; "parsed", "generated";
                      \* "read", "converted"
    input,            \* the lines scanner.Text() has returned so far
    lineNumber,
    tokens,           \* this iteration's TokenizeCommand result, << >> if none
    command,          \* this iteration's command, NoCommand if none
    servers, vservers, serviceGroupDefs, serviceGroups, vserverBindings,
    ret,              \* the values ParseL7Settings returned
    tokenizer,        \* the Tokenizer of the TokenizeCommand call under way
    traefikConfig,    \* main's traefikConfig
    mappingConfig,    \* main's mappingConfig
    nodes, pools, virtuals   \* what ParseF5ConfigSimple read from the content

vars == <<pc, input, lineNumber, tokens, command, servers, vservers,
          serviceGroupDefs, serviceGroups, vserverBindings, ret,
          tokenizer, traefikConfig, mappingConfig, nodes, pools, virtuals>>

\* what a run of ParseL7Settings does not touch
others == <<tokenizer, traefikConfig, mappingConfig, nodes, pools, virtuals>>

Nil == << >>

Init ==
    /\ pc = "start"
    /\ input = << >>
    /\ lineNumber = 0
    /\ tokens = << >>
    /\ command = NoCommand
    /\ servers = Nil
    /\ vservers = Nil
    /\ serviceGroupDefs = Nil
    /\ serviceGroups = Nil
    /\ vserverBindings = Nil
    /\ ret = Outcome(Nil, Nil, Nil, Nil, Nil, Nil)
    /\ tokenizer = Nil
    /\ traefikConfig = Nil
    /\ mappingConfig = Nil
    /\ nodes = Nil
    /\ pools = Nil
    /\ virtuals = Nil

\* mutant: the collections gathered so far are returned with the error
ReturnErrorWithPartial(err) ==
    /\ pc' = "done"
    /\ ret' = Outcome(servers, vservers, serviceGroupDefs, serviceGroups,
                      vserverBindings, err)
    /\ UNCHANGED <<servers, vservers, serviceGroupDefs, serviceGroups, vserverBindings>>

\* return nil, nil, nil, nil, nil, err
ReturnError(err) ==
    /\ pc' = "done"
    /\ ret' = Outcome(Nil, Nil, Nil, Nil, Nil, err)
    /\ UNCHANGED <<servers, vservers, serviceGroupDefs, serviceGroups, vserverBindings>>

\* continue
Continue ==
    /\ pc' = pc
    /\ UNCHANGED <<servers, vservers, serviceGroupDefs, serviceGroups,
                   vserverBindings, ret>>

\* fmt.Errorf("line %d: %v", lineNumber, err)
LineError(n, err) == <<"line ">> \o Itoa(n) \o <<": ">> \o err

\* os.Open: the file opens, or the run returns the error
OpenFile ==
    /\ pc = "start"
    /\ \E opened \in BOOLEAN :
         IF opened
         THEN /\ pc' = "scan"
              /\ UNCHANGED <<servers, vservers, serviceGroupDefs, serviceGroups,
                             vserverBindings, ret>>
         ELSE ReturnError(<<"open: no such file or directory">>)
    /\ UNCHANGED <<input, lineNumber, tokens, command, others>>

\* the switch on command.Action and the error check after it
Dispatch(cmd, n) ==
    LET out == CASE cmd.Action = ActionAdd ->
                      handleAddCommand(cmd, servers, vservers, serviceGroupDefs,
                                       serviceGroups, vserverBindings)
                 [] cmd.Action = ActionBind ->
                      handleBindCommand(cmd, servers, vservers, serviceGroupDefs,
                                        serviceGroups, vserverBindings)
                 [] OTHER ->
                      handleSetCommand(cmd, servers, vservers, serviceGroupDefs,
                                       serviceGroups, vserverBindings)
    IN IF cmd.Action \notin {ActionAdd, ActionBind, ActionSet} THEN Continue
       ELSE IF out.err # Nil THEN ReturnError(LineError(n, out.err))
       ELSE /\ pc' = pc
            /\ servers' = out.servers
            /\ vservers' = out.vservers
            /\ serviceGroupDefs' = out.serviceGroupDefs
            /\ serviceGroups' = out.serviceGroups
            /\ vserverBindings' = out.vserverBindings
            /\ UNCHANGED ret

\* mutant: the token buffer of the call before is kept, and this line's
\* tokens are added after its tokens
ScanLineReusingTokens(text) ==
    /\ pc = "scan"
    /\ lineNumber < MaxLines
    /\ lineNumber' = lineNumber + 1
    /\ input' = Append(input, text)
    /\ UNCHANGED others
    /\ LET line == TrimSpace(text)
       IN IF line = << >> \/ HasPrefix(line, <<"#">>)
          THEN /\ tokens' = << >>
               /\ command' = NoCommand
               /\ Continue
          ELSE LET kept == IF tokens = << >> THEN << >>
                           ELSE SubSeq(tokens, 1, Len(tokens) - 1)
                   toks == kept \o TokenizeCommand(line)
                   r == IF HasErrorToken(toks) THEN ParseF5Command(line)
                        ELSE ParseCommand(NewCommandParser(toks), toks)
               IN /\ tokens' = r.tokens
                  /\ command' = r.cmd
                  /\ IF r.err # Nil THEN ReturnError(LineError(lineNumber + 1, r.err))
                     ELSE IF r.isNil THEN Continue
                     ELSE Dispatch(r.cmd, lineNumber + 1)

\* one iteration of the loop: scanner.Scan() returned true with this text
ScanLine(text) ==
    /\ pc = "scan"
    /\ lineNumber < MaxLines
    /\ lineNumber' = lineNumber + 1
    /\ input' = Append(input, text)
    /\ UNCHANGED others
    /\ LET line == TrimSpace(text)
       IN IF line = << >> \/ HasPrefix(line, <<"#">>)
          THEN /\ tokens' = << >>
               /\ command' = NoCommand
               /\ Continue
          ELSE LET r == ParseF5Command(line)
               IN /\ tokens' = r.tokens
                  /\ command' = r.cmd
                  /\ IF r.err # Nil THEN ReturnError(LineError(lineNumber + 1, r.err))
                     ELSE IF r.isNil THEN Continue
                     ELSE Dispatch(r.cmd, lineNumber + 1)

\* scanner.Scan() returned false and scanner.Err() is nil: the normal return
ScanEOF ==
    /\ pc = "scan"
    /\ pc' = "done"
    /\ ret' = Outcome(servers, vservers, serviceGroupDefs, serviceGroups,
                      vserverBindings, Nil)
    /\ UNCHANGED <<input, lineNumber, tokens, command, servers, vservers,
                   serviceGroupDefs, serviceGroups, vserverBindings, others>>

\* scanner.Scan() returned false and scanner.Err() is an error
ScanErr ==
    /\ pc = "scan"
    /\ ReturnError(<<"read error">>)
    /\ UNCHANGED <<input, lineNumber, tokens, command, others>>

Next ==
    \/ OpenFile
    \/ \E text \in Lines : ScanLine(text)
    \/ ScanEOF
    \/ ScanErr

Spec == Init /\ [][Next]_vars

(***************************************************************************)
(* A run of ParseL7Settings over a file of one line.  The line is a        *)
(* sequence of words separated by single spaces: up to MaxWords words of   *)
(* StartWords, or one of LineHeads followed by up to MaxWords words of     *)
(* TailWords.                                                              *)
(***************************************************************************)
\* the most words of a line, after its head when it has one
MaxWords == 3

\* an action, a keyword that may only begin an object type (service), two
\* that may also continue one (server, monitor), an identifier, an empty
\* quoted string, a flag and a stray character
StartWords ==
    {<<"a", "d", "d">>,
     <<"s", "e", "r", "v", "e", "r">>,
     <<"m", "o", "n", "i", "t", "o", "r">>,
     <<"s", "e", "r", "v", "i", "c", "e">>,
     <<"w", "e", "b", "0", "1">>,
     <<"\"", "\"">>,
     <<"-", "x">>,
     <<"/">>}

\* a keyword, an identifier, a number, an IP literal, an empty and a
\* non-empty quoted string, two flags and a stray character
TailWords ==
    {<<"m", "o", "n", "i", "t", "o", "r">>,
     <<"w", "e", "b", "0", "1">>,
     <<"8", "0">>,
     <<"1", "0", ".", "0", ".", "0", ".", "1">>,
     <<"\"", "\"">>,
     <<"\"", "q", "\"">>,
     <<"-", "c", "o", "m", "m", "e", "n", "t">>,
     <<"-", "x">>,
     <<"/">>}

\* the beginnings of an add line up to the object type and up to the name,
\* and of lines with a capital in the action
LineHeads ==
    {<<<<"a", "d", "d">>, <<"s", "e", "r", "v", "e", "r">>>>,
     <<<<"a", "d", "d">>, <<"s", "e", "r", "v", "e", "r">>, <<"w", "e", "b", "0", "1">>>>,
     <<<<"A", "D", "D">>, <<"s", "e", "r", "v", "e", "r">>, <<"w", "e", "b", "0", "1">>>>,
     <<<<"B", "i", "n", "d">>, <<"s", "e", "r", "v", "i", "c", "e", "G", "r", "o", "u", "p">>, <<"g">>>>}

\* the sequences of up to n elements of S
RECURSIVE WordsOver(_, _)
WordsOver(S, n) ==
    IF n = 0 THEN {<< >>}
    ELSE LET shorter == WordsOver(S, n - 1)
         IN shorter \cup {Append(ws, w) : ws \in shorter, w \in S}

LineInputs ==
    {JoinSpace(ws) : ws \in WordsOver(StartWords, MaxWords)}
        \cup {JoinSpace(h \o ws) : h \in LineHeads, ws \in WordsOver(TailWords, MaxWords)}

LineNext ==
    \/ OpenFile
    \/ lineNumber = 0 /\ \E text \in LineInputs : ScanLine(text)
    \/ ScanEOF
    \/ ScanErr

LineSpec == Init /\ [][LineNext]_vars

(***************************************************************************)
(* One call of TokenizeCommand, one NextToken at a time.  The command is   *)
(* an input of the call: a short string over TokAlphabet, a word of        *)
(* dot-separated groups, a keyword in some letter case, or one of          *)
(* ExtraWords.                                                             *)
(***************************************************************************)
\* the longest string over TokAlphabet
MaxLen == 4

\* the most groups of a dotted word
MaxGroups == 5

TokAlphabet == {"a", " ", "\n", "-", "\"", "\\", "/"}

RECURSIVE StringsOver(_, _)
StringsOver(alphabet, n) ==
    IF n = 0 THEN {<< >>}
    ELSE LET shorter == StringsOver(alphabet, n - 1)
         IN shorter \cup {Append(s, c) : s \in shorter, c \in alphabet}

DotGroups == {<< >>, <<"1">>, <<"1", "2", "3">>, <<"1", "2", "3", "4">>, <<"a">>}

RECURSIVE DottedWords(_)
DottedWords(n) ==
    IF n = 1 THEN DotGroups
    ELSE LET fewer == DottedWords(n - 1)
         IN fewer \cup {w \o <<".">> \o g : w \in fewer, g \in DotGroups}

UpperOf == [c \in LowerLetters |-> CHOOSE u \in UpperLetters : LowerOf[u] = c]

ToUpper(s) == [i \in 1..Len(s) |-> IF s[i] \in LowerLetters THEN UpperOf[s[i]] ELSE s[i]]

Capitalized(s) == [i \in 1..Len(s) |-> IF i = 1 THEN ToUpper(s)[i] ELSE s[i]]

KeywordWords ==
    UNION {{k, ToUpper(k), Capitalized(k)} : k \in DOMAIN KeywordTable}

ExtraWords ==
    {<<"xC3", "xAA">>,
     <<"a", "xC3", "xAA">>,
     <<"a", "d", "d", "1">>,
     <<"_", "a", ":", "b", "-", "c">>,
     <<"0", "0", "7">>,
     <<"s", "e", "r", "v", "e", "r", " ", "S", "e", "t">>,
     <<"a", "d", "d", ".", "1">>}

TokInputs ==
    StringsOver(TokAlphabet, MaxLen) \cup DottedWords(MaxGroups)
        \cup KeywordWords \cup ExtraWords

TokInit ==
    /\ pc = "call"
    /\ tokenizer = Nil
    /\ tokens = << >>
    /\ input = << >>
    /\ lineNumber = 0
    /\ command = NoCommand
    /\ servers = Nil
    /\ vservers = Nil
    /\ serviceGroupDefs = Nil
    /\ serviceGroups = Nil
    /\ vserverBindings = Nil
    /\ ret = Outcome(Nil, Nil, Nil, Nil, Nil, Nil)
    /\ traefikConfig = Nil
    /\ mappingConfig = Nil
    /\ nodes = Nil
    /\ pools = Nil
    /\ virtuals = Nil

\* the commands of the runs whose termination is checked: every short text
\* and the extra words
TokLiveInputs == StringsOver(TokAlphabet, MaxLen) \cup ExtraWords

\* tokenizer := NewTokenizer(command), for a command of the given set
CallTokenizeCommand(commands) ==
    /\ pc = "call"
    /\ \E cmd \in commands : tokenizer' = NewTokenizer(cmd)
    /\ pc' = "tokenize"
    /\ UNCHANGED <<input, lineNumber, tokens, command, servers, vservers,
                   serviceGroupDefs, serviceGroups, vserverBindings, ret,
                   traefikConfig, mappingConfig, nodes, pools, virtuals>>

\* mutant: the loop goes on after an error token, to the end of the input
NextTokenStepPastErrors ==
    /\ pc = "tokenize"
    /\ \E r \in {NextToken(tokenizer)} :
          /\ tokenizer' = r.t
          /\ tokens' = Append(tokens, r.token)
          /\ pc' = IF r.token.Type = "TokenEOF" THEN "tokenized" ELSE "tokenize"
    /\ UNCHANGED <<input, lineNumber, command, servers, vservers, serviceGroupDefs,
                   serviceGroups, vserverBindings, ret, traefikConfig, mappingConfig,
                   nodes, pools, virtuals>>

\* one round of the loop of TokenizeCommand: token := tokenizer.NextToken()
NextTokenStep ==
    /\ pc = "tokenize"
    /\ \E r \in {NextToken(tokenizer)} :
          /\ tokenizer' = r.t
          /\ tokens' = Append(tokens, r.token)
          /\ pc' = IF r.token.Type = "TokenEOF" \/ r.token.Type = "TokenError"
                   THEN "tokenized" ELSE "tokenize"
    /\ UNCHANGED <<input, lineNumber, command, servers, vservers, serviceGroupDefs,
                   serviceGroups, vserverBindings, ret, traefikConfig, mappingConfig,
                   nodes, pools, virtuals>>

TokNext ==
    \/ CallTokenizeCommand(TokInputs)
    \/ NextTokenStep

TokSpec == TokInit /\ [][TokNext]_vars

TokLiveNext ==
    \/ CallTokenizeCommand(TokLiveInputs)
    \/ NextTokenStep

\* the loop has nothing to wait for: a round that can be taken is taken
TokLiveSpec == TokInit /\ [][TokLiveNext]_vars /\ WF_vars(NextTokenStep)

(***************************************************************************)
(* The generation step of main: the collections a run returned are handed  *)
(* to the two generators.  The collections are inputs of the step, drawn   *)
(* from entries the processor can append.                                  *)
(***************************************************************************)
\* the most entries of a collection
MaxEntries == 2

Str_app == <<"a", "p", "p">>

Str_api == <<"a", "p", "i">>

Str_web01 == <<"w", "e", "b", "0", "1">>

Str_web09 == <<"w", "e", "b", "0", "9">>

Str_HTTP == <<"H", "T", "T", "P">>

RECURSIVE SeqsOver(_, _)
SeqsOver(elems, n) ==
    IF n = 0 THEN {<< >>}
    ELSE LET shorter == SeqsOver(elems, n - 1)
         IN shorter \cup {Append(s, e) : s \in shorter, e \in elems}

\* two servers of one name
GenServers ==
    {ServerInfo(Str_web01, <<"1", ".", "1", ".", "1", ".", "1">>, << >>),
     ServerInfo(Str_web01, <<"2", ".", "2", ".", "2", ".", "2">>, <<"c", "s">>)}

GenVServers ==
    {VServerInfo(Str_app, Str_HTTP, <<"9", ".", "9", ".", "9", ".", "9">>, <<"8", "0">>),
     VServerInfo(Str_api, Str_HTTP, <<"9", ".", "9", ".", "9", ".", "8">>,
                 <<"4", "4", "3">>)}

\* two definitions of one name, with and without a comment
GenServiceGroupDefs ==
    {ServiceGroupDef(Str_app, Str_HTTP, <<"c", "d">>),
     ServiceGroupDef(Str_app, Str_HTTP, << >>)}

\* a member the servers resolve, one they do not, and one of another group
GenServiceGroups ==
    {ServiceGroup(Str_app, Str_web01, <<"8", "0">>, <<"c", "b">>),
     ServiceGroup(Str_app, Str_web09, <<"8", "1">>, <<"c", "x">>),
     ServiceGroup(Str_api, Str_web01, <<"8", "2">>, << >>)}

GenInit ==
    /\ pc = "parsed"
    /\ servers \in SeqsOver(GenServers, MaxEntries)
    /\ vservers \in SeqsOver(GenVServers, MaxEntries)
    /\ serviceGroupDefs \in SeqsOver(GenServiceGroupDefs, MaxEntries)
    /\ serviceGroups \in SeqsOver(GenServiceGroups, MaxEntries)
    /\ vserverBindings = Nil
    /\ input = << >>
    /\ lineNumber = 0
    /\ tokens = << >>
    /\ command = NoCommand
    /\ ret = Outcome(Nil, Nil, Nil, Nil, Nil, Nil)
    /\ tokenizer = Nil
    /\ traefikConfig = Nil
    /\ mappingConfig = Nil
    /\ nodes = Nil
    /\ pools = Nil
    /\ virtuals = Nil

\* main: the two generator calls
Generate ==
    /\ pc = "parsed"
    /\ traefikConfig' = GenerateTraefikConfig(servers, vservers, serviceGroupDefs,
                                              serviceGroups)
    /\ mappingConfig' = GenerateMappingConfig(vservers, serviceGroupDefs, serviceGroups)
    /\ pc' = "generated"
    /\ UNCHANGED <<input, lineNumber, tokens, command, servers, vservers,
                   serviceGroupDefs, serviceGroups, vserverBindings, ret, tokenizer,
                   nodes, pools, virtuals>>

GenNext == Generate

GenSpec == GenInit /\ [][GenNext]_vars

(***************************************************************************)
(* The brace dialect (f5_parser.go): convertF5ToTraefikFormat.  The nodes, *)
(* pools and virtuals are what the three regex parsers return: a name      *)
(* begins with /Common/, a member's address is a dotted quad, a            *)
(* destination is empty or address:port.                                   *)
(***************************************************************************)
F5NodeSimple(name, address) == [Name |-> name, Address |-> address]

F5PoolMemberSimple(address, port) == [Address |-> address, Port |-> port]

F5PoolSimple(name, description, members) ==
    [Name |-> name, Description |-> description, Members |-> members, Monitor |-> << >>]

F5VirtualSimple(name, description, destination, pool) ==
    [Name |-> name, Description |-> description, Destination |-> destination,
     Pool |-> pool, Profiles |-> << >>]

\* strings.TrimPrefix
TrimPrefix(s, prefix) ==
    IF HasPrefix(s, prefix) THEN SubSeq(s, Len(prefix) + 1, Len(s)) ELSE s

Common == <<"/", "C", "o", "m", "m", "o", "n", "/">>

\* the locals of convertF5ToTraefikFormat
F5State(s, v, d, g, b, serverMap, ipToServerName) ==
    [servers |-> s, vservers |-> v, serviceGroupDefs |-> d, serviceGroups |-> g,
     vserverBindings |-> b, serverMap |-> serverMap, ipToServerName |-> ipToServerName]

\* the loop over the nodes
RECURSIVE convertNodes(_, _)
convertNodes(ns, st) ==
    IF ns = << >> THEN st
    ELSE LET node == Head(ns)
             cleanName == TrimPrefix(node.Name, Common)
         IN convertNodes(Tail(ns),
               [st EXCEPT !.servers = Append(@, ServerInfo(cleanName, node.Address,
                                                           <<"F", "5", " ", "N", "o", "d", "e">>)),
                          !.serverMap = MapSet(@, node.Address, TRUE),
                          !.ipToServerName = MapSet(@, node.Address, cleanName)])

\* mutant: no server entry is made for a member without a node
ensureServerNever(st, address) == st

\* if !serverMap[member.Address] && member.Address != "" { servers = append(...) }
ensureServer(st, address) ==
    IF ~(address \in DOMAIN st.serverMap /\ st.serverMap[address]) /\ address # << >>
    THEN [st EXCEPT !.servers = Append(@, ServerInfo(address, address,
                                   <<"A", "u", "t", "o", "-", "g", "e", "n", "e", "r", "a", "t", "e", "d", " ", "f", "r", "o", "m", " ", "F", "5", " ", "p", "o", "o", "l", " ", "m", "e", "m", "b", "e", "r">>)),
                    !.serverMap = MapSet(@, address, TRUE),
                    !.ipToServerName = MapSet(@, address, address)]
    ELSE st

\* the loop over the members of the pool of one virtual
RECURSIVE convertMembers(_, _, _, _)
convertMembers(members, cleanVirtualName, pool, st) ==
    IF members = << >> THEN st
    ELSE LET member == Head(members)
             known == member.Address \in DOMAIN st.ipToServerName
             st1 == IF known THEN st ELSE ensureServer(st, member.Address)
             serverName == IF known THEN st.ipToServerName[member.Address]
                           ELSE member.Address
         IN convertMembers(Tail(members), cleanVirtualName, pool,
               [st1 EXCEPT !.serviceGroups =
                   Append(@, ServiceGroup(cleanVirtualName, serverName,
                                          Itoa(member.Port), pool.Description))])

\* the body of the loop over the virtuals
convertVirtual(virtual, poolMap, st) ==
    LET cleanVirtualName == TrimPrefix(virtual.Name, Common)
        parts == Split(virtual.Destination, ":")
    IN IF virtual.Destination = << >> \/ Len(parts) # 2 THEN st
       ELSE LET st1 == [st EXCEPT !.vservers =
                           Append(@, VServerInfo(cleanVirtualName, <<"H", "T", "T", "P">>,
                                                 parts[1], parts[2]))]
            IN IF virtual.Pool # << >>
               THEN IF virtual.Pool \in DOMAIN poolMap
                    THEN LET pool == poolMap[virtual.Pool]
                             st2 == [st1 EXCEPT !.serviceGroupDefs =
                                        Append(@, ServiceGroupDef(cleanVirtualName,
                                                                  <<"H", "T", "T", "P">>,
                                                                  pool.Description))]
                             st3 == convertMembers(pool.Members, cleanVirtualName, pool, st2)
                         IN [st3 EXCEPT !.vserverBindings =
                                Append(@, VServerBinding(cleanVirtualName, cleanVirtualName,
                                                         << >>, << >>, << >>, << >>,
                                                         virtual.Description))]
                    ELSE st1
               ELSE [st1 EXCEPT !.serviceGroupDefs =
                        Append(@, ServiceGroupDef(cleanVirtualName, <<"H", "T", "T", "P">>,
                                   <<"F", "5", " ", "V", "i", "r", "t", "u", "a", "l", " ", "S", "e", "r", "v", "e", "r", " ", "w", "i", "t", "h", "o", "u", "t", " ", "p", "o", "o", "l">>))]

\* the loop over the virtuals
RECURSIVE convertVirtuals(_, _, _)
convertVirtuals(vs, poolMap, st) ==
    IF vs = << >> THEN st
    ELSE convertVirtuals(Tail(vs), poolMap, convertVirtual(Head(vs), poolMap, st))

convertF5ToTraefikFormat(nodes0, pools0, virtuals0) ==
    LET st == convertNodes(nodes0, F5State(Nil, Nil, Nil, Nil, Nil, EmptyMap, EmptyMap))
        poolMap == IndexByName(pools0, EmptyMap)
    IN convertVirtuals(virtuals0, poolMap, st)

\* the longest list of nodes, of pools and of virtuals
MaxF5 == 2

Addr1 == <<"1", "0", ".", "0", ".", "0", ".", "1">>

Addr2 == <<"1", "0", ".", "0", ".", "0", ".", "2">>

PoolA == <<"/", "C", "o", "m", "m", "o", "n", "/", "p", "a">>

PoolB == <<"/", "C", "o", "m", "m", "o", "n", "/", "p", "b">>

\* two nodes of one address
F5Nodes ==
    {F5NodeSimple(<<"/", "C", "o", "m", "m", "o", "n", "/", "w", "e", "b", "0", "1">>, Addr1),
     F5NodeSimple(<<"/", "C", "o", "m", "m", "o", "n", "/", "w", "e", "b", "0", "2">>, Addr1)}

\* a pool with a member at the nodes' address and one at no node's, a pool
\* that shares the second address, and a pool of the first name without
\* members
F5Pools ==
    {F5PoolSimple(PoolA, <<"d", "a">>,
                  <<F5PoolMemberSimple(Addr1, 80), F5PoolMemberSimple(Addr2, 80)>>),
     F5PoolSimple(PoolB, << >>, <<F5PoolMemberSimple(Addr2, 8080)>>),
     F5PoolSimple(PoolA, << >>, << >>)}

\* virtuals with a pool, without a pool and without a destination
F5Virtuals ==
    {F5VirtualSimple(<<"/", "C", "o", "m", "m", "o", "n", "/", "a", "p", "p">>, <<"v", "a">>, <<"9", ".", "9", ".", "9", ".", "9", ":", "8", "0">>, PoolA),
     F5VirtualSimple(<<"/", "C", "o", "m", "m", "o", "n", "/", "a", "p", "i">>, << >>, <<"9", ".", "9", ".", "9", ".", "8", ":", "4", "4", "3">>, PoolB),
     F5VirtualSimple(<<"/", "C", "o", "m", "m", "o", "n", "/", "a", "p", "p">>, << >>, <<"9", ".", "9", ".", "9", ".", "9", ":", "8", "0">>, << >>),
     F5VirtualSimple(<<"/", "C", "o", "m", "m", "o", "n", "/", "o", "l", "d">>, << >>, << >>, PoolA)}

F5Init ==
    /\ pc = "read"
    /\ nodes \in SeqsOver(F5Nodes, MaxF5)
    /\ pools \in SeqsOver(F5Pools, MaxF5)
    /\ virtuals \in SeqsOver(F5Virtuals, MaxF5)
    /\ servers = Nil
    /\ vservers = Nil
    /\ serviceGroupDefs = Nil
    /\ serviceGroups = Nil
    /\ vserverBindings = Nil
    /\ input = << >>
    /\ lineNumber = 0
    /\ tokens = << >>
    /\ command = NoCommand
    /\ ret = Outcome(Nil, Nil, Nil, Nil, Nil, Nil)
    /\ tokenizer = Nil
    /\ traefikConfig = Nil
    /\ mappingConfig = Nil

\* servers, vservers, ... := convertF5ToTraefikFormat(nodes, pools, virtuals)
ConvertF5 ==
    /\ pc = "read"
    /\ \E out \in {convertF5ToTraefikFormat(nodes, pools, virtuals)} :
          /\ servers' = out.servers
          /\ vservers' = out.vservers
          /\ serviceGroupDefs' = out.serviceGroupDefs
          /\ serviceGroups' = out.serviceGroups
          /\ vserverBindings' = out.vserverBindings
    /\ pc' = "converted"
    /\ UNCHANGED <<input, lineNumber, tokens, command, ret, tokenizer, traefikConfig,
                   mappingConfig, nodes, pools, virtuals>>

F5Next == ConvertF5

F5Spec == F5Init /\ [][F5Next]_vars

(***************************************************************************)
(* Properties.  A step of ScanLine is recognised by the line counter; the  *)
(* primed tokens and command are those of the line just read.              *)
(***************************************************************************)
Scanned == lineNumber' = lineNumber + 1

Last(s) == s[Len(s)]

ParamOf(cmd, k) == IF k \in DOMAIN cmd.Parameters THEN cmd.Parameters[k] ELSE << >>

IsAdd(cmd, type) ==
    cmd.Action = ActionAdd /\ NormalizeObjectType(cmd.ObjectType) = type

IsBind(cmd, type) ==
    cmd.Action = ActionBind /\ NormalizeObjectType(cmd.ObjectType) = type

\* the run is still in its loop and has returned nothing
StillScanning == pc' = "scan" /\ ret' = ret

HasFlag(toks, name) ==
    \E i \in 1..Len(toks) :
        toks[i].Type = "TokenParameterFlag" /\ toks[i].Value = name

\* the position of the name token: the action, the words of the object type
NameIndex(cmd) == Len(Split(cmd.ObjectType, " ")) + 2

\* C1: an `add server <name> <ip> [parameters]` line that parses appends
\* exactly one ServerInfo: Name is the value of the name token (the third
\* token), IP the first positional argument, Comment the value of -comment
\* if present and "" otherwise; nothing else changes and no error is returned.
C1_AddServerAppends ==
    [][(Scanned /\ IsAdd(command', TypeServer) /\ Len(command'.Arguments) >= 1)
        => /\ servers' = Append(servers,
                                [Name |-> tokens'[3].Value,
                                 IP |-> command'.Arguments[1],
                                 Comment |-> ParamOf(command', ParamComment)])
           /\ UNCHANGED <<vservers, serviceGroupDefs, serviceGroups, vserverBindings>>
           /\ StillScanning]_vars

C1_Witness ==
    /\ pc = "scan"
    /\ lineNumber = 2
    /\ IsAdd(command, TypeServer)
    /\ ParamComment \in DOMAIN command.Parameters
    /\ Len(servers) = 2
    /\ Last(servers).Name = command.Name
    /\ Last(servers).IP = command.Arguments[1]
    /\ Last(servers).Comment = command.Parameters[ParamComment]
    /\ Last(servers).Comment # << >>
    /\ servers[1].Comment = << >>

\* C2: a `bind serviceGroup` line in which a -monitorName flag occurs appends
\* no ServiceGroupBinding and returns no error, whatever follows the flag.
C2_MonitorFlagDiscardsLine ==
    [][(Scanned /\ IsBind(command', TypeServiceGroup)
                /\ HasFlag(tokens', ParamMonitorName))
        => /\ serviceGroups' = serviceGroups
           /\ StillScanning]_vars

\* C3 as stated: a `bind lb vserver` line that parses appends exactly one
\* VirtualServerBinding and returns no error; ServiceName is "" when the token
\* after the name is a parameter flag and the first positional argument
\* otherwise ("" when there is none); the other fields are the parameters.
C3_ServiceNameIsFirstArgument ==
    [][(Scanned /\ IsBind(command', TypeLBVServer))
        => /\ vserverBindings' = Append(vserverBindings,
                [VServerName |-> command'.Name,
                 ServiceName |->
                     IF tokens'[NameIndex(command') + 1].Type = "TokenParameterFlag"
                        \/ command'.Arguments = << >>
                     THEN << >> ELSE command'.Arguments[1],
                 PolicyName |-> ParamOf(command', ParamPolicyName),
                 Priority |-> ParamOf(command', ParamPriority),
                 GotoExpression |-> ParamOf(command', ParamGotoPriorityExpression),
                 Type |-> ParamOf(command', ParamType),
                 Comment |-> ParamOf(command', ParamComment)])
           /\ StillScanning]_vars

\* C3 amended: as above, but ServiceName is the first positional argument
\* only when there is one and it does not begin with "-" (a quoted "-svc"
\* is an argument that begins with a dash); otherwise it is "".
C3_BindLBVServerAppends ==
    [][(Scanned /\ IsBind(command', TypeLBVServer))
        => /\ vserverBindings' = Append(vserverBindings,
                [VServerName |-> command'.Name,
                 ServiceName |->
                     IF command'.Arguments # << >>
                        /\ command'.Arguments[1][1] # "-"
                     THEN command'.Arguments[1] ELSE << >>,
                 PolicyName |-> ParamOf(command', ParamPolicyName),
                 Priority |-> ParamOf(command', ParamPriority),
                 GotoExpression |-> ParamOf(command', ParamGotoPriorityExpression),
                 Type |-> ParamOf(command', ParamType),
                 Comment |-> ParamOf(command', ParamComment)])
           /\ UNCHANGED <<servers, vservers, serviceGroupDefs, serviceGroups>>
           /\ StillScanning]_vars

C3_Witness ==
    /\ pc = "scan"
    /\ IsBind(command, TypeLBVServer)
    /\ tokens[NameIndex(command) + 1].Type = "TokenParameterFlag"
    /\ Len(vserverBindings) = 2
    /\ Last(vserverBindings).ServiceName = << >>
    /\ Last(vserverBindings).PolicyName # << >>
    /\ Last(vserverBindings).Priority # << >>
    /\ vserverBindings[1].ServiceName # << >>

IsQuote(c) == c \in {"\"", "'"}

HasQuote(s) == \E i \in 1..Len(s) : IsQuote(s[i])

\* the position of the first quote character of s
OpeningQuote(s) ==
    CHOOSE i \in 1..Len(s) : IsQuote(s[i]) /\ \A j \in 1..(i - 1) : ~IsQuote(s[j])

\* the position from j on of the quote q that closes the string, a backslash
\* taking the character after it with it; 0 when the string is not closed
RECURSIVE ClosingQuote(_, _, _)
ClosingQuote(s, j, q) ==
    IF j > Len(s) THEN 0
    ELSE IF s[j] = "\\" THEN ClosingQuote(s, j + 2, q)
    ELSE IF s[j] = q THEN j
    ELSE ClosingQuote(s, j + 1, q)

\* the text with its backslash escapes resolved: the backslash goes, the
\* character after it stays
RECURSIVE Unescape(_)
Unescape(s) ==
    IF s = << >> THEN << >>
    ELSE IF Head(s) = "\\"
    THEN IF Len(s) >= 2 THEN <<s[2]>> \o Unescape(SubSeq(s, 3, Len(s))) ELSE << >>
    ELSE <<Head(s)>> \o Unescape(Tail(s))

\* the line just read, as the tokenizer receives it
CurrentLine == TrimSpace(Last(input))

\* the text between the quotes of the first quoted string of s
QuotedText(s) ==
    SubSeq(s, OpeningQuote(s) + 1, ClosingQuote(s, OpeningQuote(s) + 1, s[OpeningQuote(s)]) - 1)

\* the line just read parsed, and its name is a closed quoted string that
\* contains a space
QuotedNameWithSpace ==
    /\ input # << >>
    /\ command # NoCommand
    /\ HasQuote(CurrentLine)
    /\ ClosingQuote(CurrentLine, OpeningQuote(CurrentLine) + 1,
                    CurrentLine[OpeningQuote(CurrentLine)]) # 0
    /\ tokens[NameIndex(command)].Type = "TokenString"
    /\ \A i \in 1..(NameIndex(command) - 1) : tokens[i].Type # "TokenString"
    /\ \E i \in 1..Len(QuotedText(CurrentLine)) : QuotedText(CurrentLine)[i] = " "

\* the same tokens with an unquoted name in the place of the quoted one
WithPlainName(toks, k) ==
    [toks EXCEPT ![k] = Token("TokenIdentifier", <<"n">>, toks[k].Line, toks[k].Column)]

\* what follows the name is parsed as it is after an unquoted name
RestParsedAsAfterPlainName ==
    LET k == NameIndex(command)
        plain == WithPlainName(tokens, k)
        r == ParseCommand(NewCommandParser(plain), plain)
    IN /\ r.err = << >>
       /\ r.cmd.Action = command.Action
       /\ r.cmd.ObjectType = command.ObjectType
       /\ r.cmd.Arguments = command.Arguments
       /\ r.cmd.Parameters = command.Parameters
       /\ (tokens[k + 1].Type \notin {"TokenEOF", "TokenParameterFlag"}
           /\ tokens[k + 1].Value # << >>
             => command.Arguments # << >> /\ command.Arguments[1] = tokens[k + 1].Value)

\* C4, read with backslash escapes resolved: a quoted object name that
\* contains spaces is one string token whose value is the text between the
\* quotes (each backslash dropped and the character after it kept), the
\* command's Name is that text, and the tokens after the closing quote are
\* parsed as they are after an unquoted name.
C4_QuotedNameIsUnescapedText ==
    QuotedNameWithSpace
        => /\ tokens[NameIndex(command)].Value = Unescape(QuotedText(CurrentLine))
           /\ command.Name = Unescape(QuotedText(CurrentLine))
           /\ RestParsedAsAfterPlainName

IsBlankLine(s) == \A i \in 1..Len(s) : IsSpace(s[i])

\* the first character of s that is not whitespace is #
IsCommentLine(s) ==
    \E i \in 1..Len(s) : s[i] = "#" /\ \A j \in 1..(i - 1) : IsSpace(s[j])

CollectionsUnchanged ==
    UNCHANGED <<servers, vservers, serviceGroupDefs, serviceGroups, vserverBindings>>

\* C5: a blank line, or a line whose first non-whitespace character is #,
\* is not handed to the tokenizer, leaves the five collections as they are
\* and produces no error, wherever it stands in the input.
C5_BlankAndCommentSkipped ==
    [][(Scanned /\ (IsBlankLine(Last(input')) \/ IsCommentLine(Last(input'))))
        => /\ tokens' = << >>
           /\ CollectionsUnchanged
           /\ StillScanning]_vars

C5_Witness ==
    /\ pc = "scan"
    /\ lineNumber = 2
    /\ IsCommentLine(Last(input))
    /\ IsSpace(Last(input)[1])
    /\ tokens = << >>
    /\ servers # << >>

\* what one line contributes to the collections when it is processed alone
Contribution(text) ==
    LET r == ParseF5Command(text)
    IN IF r.isNil THEN Outcome(Nil, Nil, Nil, Nil, Nil, r.err)
       ELSE IF r.cmd.Action = ActionAdd
       THEN handleAddCommand(r.cmd, Nil, Nil, Nil, Nil, Nil)
       ELSE IF r.cmd.Action = ActionBind
       THEN handleBindCommand(r.cmd, Nil, Nil, Nil, Nil, Nil)
       ELSE Outcome(Nil, Nil, Nil, Nil, Nil, Nil)

\* the contributions of the lines, one after the other in input order
RECURSIVE InOrder(_)
InOrder(texts) ==
    IF texts = << >> THEN Outcome(Nil, Nil, Nil, Nil, Nil, Nil)
    ELSE LET c == Contribution(Head(texts))
             rest == InOrder(Tail(texts))
         IN Outcome(c.servers \o rest.servers,
                    c.vservers \o rest.vservers,
                    c.serviceGroupDefs \o rest.serviceGroupDefs,
                    c.serviceGroups \o rest.serviceGroups,
                    c.vserverBindings \o rest.vserverBindings,
                    Nil)

\* C6: after a successful run each of the five returned collections holds
\* the entries of the input lines in input order, one entry per creating
\* line: equal lines give equal entries, and none is dropped as a duplicate.
C6_InsertionOrderNoDedup ==
    (pc = "done" /\ ret.err = Nil) => ret = InOrder(input)

C6_Witness ==
    /\ pc = "done"
    /\ ret.err = Nil
    /\ Len(input) = 2
    /\ input[1] = input[2]
    /\ Len(ret.serviceGroups) = 2
    /\ ret.serviceGroups[1] = ret.serviceGroups[2]

\* C7: `add server <name>` with no positional argument fails the run with
\* the semantic error of handleAddServer under the line's number, and no
\* ServerInfo is appended for the line.
C7_AddServerWithoutAddressFails ==
    [][(Scanned /\ IsAdd(command', TypeServer) /\ command'.Arguments = << >>)
        => /\ pc' = "done"
           /\ ret'.err = <<"line ">> \o Itoa(Len(input')) \o
                         <<": ", "add server command requires IP address argument">>
           /\ ret'.servers = << >>
           /\ servers' = servers]_vars

C7_Witness ==
    /\ pc = "done"
    /\ lineNumber = 2
    /\ IsAdd(command, TypeServer)
    /\ command.Arguments = << >>
    /\ command.Name # << >>
    /\ Len(servers) = 1
    /\ ret.servers = << >>
    /\ ret.err = <<"line ", "2", ": ", "add server command requires IP address argument">>

\* the error a line causes when it is processed, << >> when it causes none
CauseOf(text) ==
    IF IsBlankLine(text) \/ IsCommentLine(text) THEN << >>
    ELSE Contribution(TrimSpace(text)).err

\* the decimal numeral of a position below ten
Numeral(n) == <<"0", "1", "2", "3", "4", "5", "6", "7", "8", "9">>[n + 1]

C9_FreeTextIgnored ==
    [][(Scanned /\ tokens' # << >>
                /\ ~HasErrorToken(tokens')
                /\ tokens'[1].Type \notin ActionTokens)
        => /\ StillScanning
           /\ CollectionsUnchanged]_vars

\* C10: an add command whose normalized object type is none of server,
\* lbvserver, servicegroup, and a bind command whose normalized object type
\* is none of servicegroup, lbvserver, returns no error and leaves the five
\* collections unchanged.
C10_UnknownObjectTypeIgnored ==
    [][(Scanned /\ command' # NoCommand
                /\ \/ /\ command'.Action = ActionAdd
                      /\ NormalizeObjectType(command'.ObjectType)
                           \notin {TypeServer, TypeLBVServer, TypeServiceGroup}
                   \/ /\ command'.Action = ActionBind
                      /\ NormalizeObjectType(command'.ObjectType)
                           \notin {TypeServiceGroup, TypeLBVServer})
        => /\ StillScanning
           /\ CollectionsUnchanged]_vars

C10_Witness ==
    /\ pc = "scan"
    /\ lineNumber = 2
    /\ command.Action = ActionBind
    /\ NormalizeObjectType(command.ObjectType) \notin {TypeServiceGroup, TypeLBVServer}
    /\ ParamPolicyName \in DOMAIN command.Parameters
    /\ Len(servers) = 1
    /\ vserverBindings = << >>
    /\ serviceGroups = << >>

\* C11: a parsed command whose action is set, unbind, remove or link returns
\* no error and leaves the five collections unchanged, whatever its object
\* type, name, arguments and parameters.
C11_OtherActionsChangeNothing ==
    [][(Scanned /\ command' # NoCommand
                /\ tokens'[1].Type \in {"TokenSet", "TokenUnbind", "TokenRemove", "TokenLink"})
        => /\ StillScanning
           /\ CollectionsUnchanged]_vars

C11_Witness ==
    /\ pc = "scan"
    /\ lineNumber = 2
    /\ tokens # << >>
    /\ tokens[1].Type = "TokenSet"
    /\ command.Action = ActionSet
    /\ ParamComment \in DOMAIN command.Parameters
    /\ Len(servers) = 1
    /\ servers[1].Name = command.Name
    /\ servers[1].Comment # command.Parameters[ParamComment]

\* the line just read is handed to the parser
HandedToParser == ~(IsBlankLine(Last(input')) \/ IsCommentLine(Last(input')))

Generated == pc = "generated"

Services == traefikConfig.HTTP.Services

\* the binding names a server of the server list
Resolvable(sg) == \E i \in 1..Len(servers) : servers[i].Name = sg.ServerName

\* the address the server list gives a name: that of its last server
AddressOf(name) ==
    servers[CHOOSE i \in 1..Len(servers) :
               /\ servers[i].Name = name
               /\ \A j \in (i + 1)..Len(servers) : servers[j].Name # name].IP

\* the resolvable bindings of group G, in binding order
ResolvableBindings(G) ==
    SelectSeq(serviceGroups, LAMBDA sg : sg.Name = G /\ Resolvable(sg))

GroupNames == {serviceGroups[i].Name : i \in 1..Len(serviceGroups)}

Entries == mappingConfig.Entries

\* no definition and no binding carries the name
Unbound(name) ==
    /\ \A i \in 1..Len(serviceGroupDefs) : serviceGroupDefs[i].Name # name
    /\ \A i \in 1..Len(serviceGroups) : serviceGroups[i].Name # name

\* C14: GenerateMappingConfig emits exactly one entry per virtual server, in
\* virtual-server order, with Key <vserver IP>:<vserver port> and Value
\* <vserver name>@nacoscs; a virtual server with no service group of its
\* name still gets an entry, with an empty comment.
C14_EntryPerVServer ==
    Generated
        => /\ Len(Entries) = Len(vservers)
           /\ \A i \in 1..Len(vservers) :
                /\ Entries[i].Key = vservers[i].IP \o <<":">> \o vservers[i].Port
                /\ Entries[i].Value
                     = vservers[i].Name \o <<"@", "n", "a", "c", "o", "s", "c", "s">>
                /\ Unbound(vservers[i].Name) => Entries[i].Comment = << >>

C14_Witness ==
    /\ Generated
    /\ Len(vservers) = 2
    /\ vservers[1].Name # vservers[2].Name
    /\ ~Unbound(vservers[1].Name)
    /\ Unbound(vservers[2].Name)
    /\ Len(Entries) = 2
    /\ Entries[1].Comment # << >>
    /\ Entries[2].Comment = << >>
    /\ Entries[2].Key = <<"9", ".", "9", ".", "9", ".", "8", ":", "4", "4", "3">>
    /\ Entries[2].Value = <<"a", "p", "i", "@", "n", "a", "c", "o", "s", "c", "s">>

\* the non-empty comments of the definitions of a name
DefComments(name) ==
    {serviceGroupDefs[i].Comment : i \in {j \in 1..Len(serviceGroupDefs) :
        serviceGroupDefs[j].Name = name /\ serviceGroupDefs[j].Comment # << >>}}

HasBindingComment(name) ==
    \E i \in 1..Len(serviceGroups) :
        serviceGroups[i].Name = name /\ serviceGroups[i].Comment # << >>

\* the last definition of a name
LastDef(name) ==
    serviceGroupDefs[CHOOSE i \in 1..Len(serviceGroupDefs) :
                        /\ serviceGroupDefs[i].Name = name
                        /\ \A j \in (i + 1)..Len(serviceGroupDefs) :
                             serviceGroupDefs[j].Name # name]

\* the comments the two generators attach to the output for a name are all c
OutputCommentsAre(name, c) ==
    /\ name \in DOMAIN Services => Services[name].Comment = c
    /\ \A i \in 1..Len(vservers) : vservers[i].Name = name => Entries[i].Comment = c

IsTerminal(tok) == tok.Type \in {"TokenEOF", "TokenError"}

\* the characters of the input the tokenizer has gone past
Consumed(t) == IF t.pos - 1 < Len(t.input) THEN t.pos - 1 ELSE Len(t.input)

\* C16: for every input line TokenizeCommand terminates and returns a finite
\* token sequence in which exactly one token is end-of-input or error, and
\* that token is the last one; every NextToken call either returns
\* end-of-input or consumes at least one character.
C16_TokenizeTerminates ==
    /\ (pc = "tokenize") ~> (pc = "tokenized")
    /\ [](pc = "tokenized"
            => /\ tokens # << >>
               /\ IsTerminal(Last(tokens))
               /\ \A i \in 1..(Len(tokens) - 1) : ~IsTerminal(tokens[i]))
    /\ [][pc = "tokenize"
            => \/ Last(tokens').Type = "TokenEOF"
               \/ Consumed(tokenizer') > Consumed(tokenizer)]_vars

C16_Witness ==
    /\ pc = "tokenized"
    /\ Len(tokens) = 3
    /\ tokens[1].Type = "TokenString"
    /\ tokens[2].Type = "TokenParameterFlag"
    /\ tokens[3].Type = "TokenError"
    /\ Consumed(tokenizer) = Len(tokenizer.input)

\* the spellings of an object type that differ from it in letter case and
\* in spaces only
Spellings(objectType) ==
    {objectType, ToLower(objectType), ToUpper(objectType),
     RemoveAll(objectType, " "), NormalizeObjectType(objectType),
     ToUpper(RemoveAll(objectType, " "))}

\* what the handler of cmd's action makes of cmd in the current state
Handling(cmd) ==
    CASE cmd.Action = ActionAdd ->
           handleAddCommand(cmd, servers, vservers, serviceGroupDefs,
                            serviceGroups, vserverBindings)
      [] cmd.Action = ActionBind ->
           handleBindCommand(cmd, servers, vservers, serviceGroupDefs,
                             serviceGroups, vserverBindings)
      [] OTHER ->
           Outcome(servers, vservers, serviceGroupDefs, serviceGroups,
                   vserverBindings, << >>)

\* the handler's error inside the error of line n, << >> when there is none
CauseAfter(n, err) ==
    IF err = Nil THEN Nil
    ELSE SubSeq(err, Len(LineError(n, << >>)) + 1, Len(err))

\* the collections and the error a step leaves, as an outcome of a handler
Effect(n) ==
    LET cause == CauseAfter(n, ret'.err)
    IN Outcome(servers', vservers', serviceGroupDefs', serviceGroups',
               vserverBindings', cause)

\* C17: dispatch on the object type ignores letter case and spaces: a command
\* that differs from the one read only in the spelling of its object type
\* (lb vserver, LB VServer, lbvserver) has the same effect on the five
\* collections and the same error outcome.
C17_DispatchIgnoresCaseAndSpaces ==
    [][(Scanned /\ command' # NoCommand)
        => \A spelling \in Spellings(command'.ObjectType) :
              Handling([command' EXCEPT !.ObjectType = spelling])
                  = Effect(lineNumber')]_vars

C17_Witness ==
    /\ pc = "scan"
    /\ lineNumber = 2
    /\ IsBind(command, TypeServiceGroup)
    /\ command.ObjectType # ToLower(command.ObjectType)
    /\ Len(serviceGroups) = 1
    /\ IsAdd(ParseF5Command(TrimSpace(input[1])).cmd, TypeLBVServer)
    /\ ParseF5Command(TrimSpace(input[1])).cmd.ObjectType
          = <<"L", "B", " ", "V", "S", "e", "r", "v", "e", "r">>
    /\ Len(vservers) = 1

\* C18: `add lb vserver <name>` with fewer than three positional arguments
\* fails and appends nothing; with three or more it appends exactly one
\* VirtualServerInfo with Name = name and Protocol, IP, Port = the first,
\* second and third positional argument, whatever further arguments and
\* parameters the line has.
C18_AddLBVServerNeedsThreeArguments ==
    [][(Scanned /\ IsAdd(command', TypeLBVServer))
        => IF Len(command'.Arguments) < 3
           THEN /\ pc' = "done"
                /\ ret'.err = <<"line ">> \o Itoa(Len(input')) \o
                      <<": ", "add lb vserver command requires protocol, IP, and port arguments">>
                /\ CollectionsUnchanged
                /\ ret'.vservers = << >>
           ELSE /\ vservers' = Append(vservers,
                                      [Name |-> command'.Name,
                                       Protocol |-> command'.Arguments[1],
                                       IP |-> command'.Arguments[2],
                                       Port |-> command'.Arguments[3]])
                /\ UNCHANGED <<servers, serviceGroupDefs, serviceGroups, vserverBindings>>
                /\ StillScanning]_vars

C18_Witness ==
    /\ pc = "scan"
    /\ IsAdd(command, TypeLBVServer)
    /\ Len(command.Arguments) > 3
    /\ ParamOf(command, ParamComment) # << >>
    /\ Len(vservers) = 2
    /\ Last(vservers).Port = command.Arguments[3]
    /\ Last(vservers).Port # Last(command.Arguments)

\* C19: a `bind serviceGroup <name>` line without a -monitorName flag fails
\* and appends nothing when it has fewer than two positional arguments; with
\* two or more it appends exactly one ServiceGroup binding with the group
\* name, ServerName = the first argument, Port = the second, Comment = the
\* value of -comment, Disabled = false, Ratio = 0, LoadBalancingMode = "".
C19_BindServiceGroupNeedsTwoArguments ==
    [][(Scanned /\ IsBind(command', TypeServiceGroup)
                /\ ~HasFlag(tokens', ParamMonitorName))
        => IF Len(command'.Arguments) < 2
           THEN /\ pc' = "done"
                /\ ret'.err = <<"line ">> \o Itoa(Len(input')) \o
                      <<": ", "bind serviceGroup command requires server name and port arguments">>
                /\ CollectionsUnchanged
                /\ ret'.serviceGroups = << >>
           ELSE /\ serviceGroups' = Append(serviceGroups,
                                           [Name |-> command'.Name,
                                            ServerName |-> command'.Arguments[1],
                                            Port |-> command'.Arguments[2],
                                            Comment |-> ParamOf(command', ParamComment),
                                            Disabled |-> FALSE,
                                            Ratio |-> 0,
                                            LoadBalancingMode |-> << >>])
                /\ UNCHANGED <<servers, vservers, serviceGroupDefs, vserverBindings>>
                /\ StillScanning]_vars

C19_Witness ==
    /\ pc = "done"
    /\ lineNumber = 2
    /\ IsBind(command, TypeServiceGroup)
    /\ ~HasFlag(tokens, ParamMonitorName)
    /\ Len(command.Arguments) = 1
    /\ ret.err # Nil
    /\ Len(serviceGroups) = 1
    /\ serviceGroups[1].Comment # << >>
    /\ serviceGroups[1].Ratio = 0

\* the first position from i on that holds no whitespace
RECURSIVE SkipBlank(_, _)
SkipBlank(s, i) == IF i <= Len(s) /\ IsSpace(s[i]) THEN SkipBlank(s, i + 1) ELSE i

IsWordChar(c) == IsLetter(c) \/ IsDigit(c) \/ c \in {"_", "-", ":", "."}

\* the end of the maximal run of word characters that begins at i
RECURSIVE RunEnd(_, _)
RunEnd(s, i) == IF i < Len(s) /\ IsWordChar(s[i + 1]) THEN RunEnd(s, i + 1) ELSE i

\* the positions of the dots of w
Dots(w) == {i \in 1..Len(w) : w[i] = "."}

AllDigits(w, from, to) == \A i \in from..to : IsDigit(w[i])

\* four dot-separated groups of one to three digits each
IsDottedQuad(w) ==
    /\ Cardinality(Dots(w)) = 3
    /\ \E a, b, c \in Dots(w) :
         /\ a < b /\ b < c
         /\ a - 1 \in 1..3 /\ AllDigits(w, 1, a - 1)
         /\ b - a - 1 \in 1..3 /\ AllDigits(w, a + 1, b - 1)
         /\ c - b - 1 \in 1..3 /\ AllDigits(w, b + 1, c - 1)
         /\ Len(w) - c \in 1..3 /\ AllDigits(w, c + 1, Len(w))

\* the class of a word, decided in the order keyword, IP, number, identifier
ClassOf(w) ==
    IF ToLower(w) \in DOMAIN KeywordTable THEN KeywordTable[ToLower(w)]
    ELSE IF IsDottedQuad(w) THEN "TokenIP"
    ELSE IF AllDigits(w, 1, Len(w)) THEN "TokenNumber"
    ELSE "TokenIdentifier"

\* C20: a token read as a maximal run of letters, digits, _, -, :, . that
\* starts with a letter, a digit or _ has the class keyword if its
\* lower-cased text is in the keyword table, else IP literal if it is four
\* dot-separated groups of 1 to 3 digits, else number if every character is
\* a digit, else identifier; its value is the original text, in its case.
C20_ClassAndTextOfWord ==
    [][pc = "tokenize" =>
        LET s == tokenizer.input
            i == SkipBlank(s, tokenizer.pos)
        IN (i <= Len(s) /\ (IsLetter(s[i]) \/ IsDigit(s[i]) \/ s[i] = "_"))
             => LET w == SubSeq(s, i, RunEnd(s, i))
                IN /\ Last(tokens').Value = w
                   /\ Last(tokens').Type = ClassOf(w)]_vars

\* the class alone, whatever the value: the order keyword, IP, number,
\* identifier is the order of getKeywordType
WordClassAsStated ==
    [][pc = "tokenize" =>
        LET s == tokenizer.input
            i == SkipBlank(s, tokenizer.pos)
        IN (i <= Len(s) /\ (IsLetter(s[i]) \/ IsDigit(s[i]) \/ s[i] = "_"))
             => Last(tokens').Type = ClassOf(SubSeq(s, i, RunEnd(s, i)))]_vars


(***************************************************************************)
(* Properties of the parse of one line (LineSpec).                         *)
(***************************************************************************)
\* a character that neither starts a token nor continues a word
IsStray(c) == ~(IsSpace(c) \/ IsQuote(c) \/ IsIdentifierChar(c))

\* the position of the first stray character of s from i on that is outside
\* a quoted string, 0 when there is none; q is the quote that is open
RECURSIVE StrayFrom(_, _, _)
StrayFrom(s, i, q) ==
    IF i > Len(s) THEN 0
    ELSE IF q # ""
    THEN IF s[i] = "\\" THEN StrayFrom(s, i + 2, q)
         ELSE IF s[i] = q THEN StrayFrom(s, i + 1, "")
         ELSE StrayFrom(s, i + 1, q)
    ELSE IF IsQuote(s[i]) THEN StrayFrom(s, i + 1, s[i])
    ELSE IF IsStray(s[i]) THEN i
    ELSE StrayFrom(s, i + 1, "")

FirstStray(s) == StrayFrom(s, 1, "")

ParsedAfterAction ==
    /\ Scanned
    /\ HandedToParser
    /\ ~HasErrorToken(tokens')
    /\ tokens'[1].Type \in ActionTokens

\* the message of the error the step returned, without `line N: `
Cause == CauseAfter(lineNumber', ret'.err)

\* the step failed with a message that begins with head
FailedWith(head) ==
    /\ pc' = "done"
    /\ command' = NoCommand
    /\ ret'.err # Nil
    /\ Cause[1] = head
    /\ CollectionsUnchanged

\* the token classes of the keywords that are no actions
TypeKeywords == {KeywordTable[w] : w \in DOMAIN KeywordTable} \ ActionTokens

\* the keywords that may begin an object type and not continue one
FirstOnlyKeywords ==
    {"TokenPolicyLabel", "TokenNslogGlobal", "TokenSyslogGlobal", "TokenGlobal",
     "TokenPatset", "TokenService", "TokenUser", "TokenGroup", "TokenParam",
     "TokenDiameter", "TokenEncryptionParams", "TokenHttpParam",
     "TokenHttpProfile", "TokenRpcNode", "TokenTcpbufParam", "TokenGxInterface"}

\* the last position of the run of tokens of the classes of S from i on,
\* i - 1 when toks[i] is of no such class
RECURSIVE RunOf(_, _, _)
RunOf(toks, i, S) ==
    IF i <= Len(toks) /\ toks[i].Type \in S THEN RunOf(toks, i + 1, S) ELSE i - 1

\* the values of toks[i..j] joined by single spaces
ValuesJoined(toks, i, j) == JoinSpace([k \in 1..(j - i + 1) |-> toks[i + k - 1].Value])

ObjectTypeError == "expected object type (server, lb vserver, serviceGroup, etc.), got "

ObjectNameError == "expected object name (string, identifier, number, or IP), got "

MayBeName(tok) ==
    /\ tok.Type # "TokenEOF"
    /\ tok.Type # "TokenParameterFlag"
    /\ tok.Value # << >>

\* C23: with the object type written as the one word server, the token
\* after it is the object name whenever it is not end-of-input, not a
\* parameter flag and has a non-empty value, a keyword such as monitor or
\* service included: Name is that token's value and the object type is
\* server; otherwise parsing fails with the missing-name error.
C23_TokenAfterObjectTypeIsName ==
    [][(ParsedAfterAction /\ tokens'[2].Type = "TokenServer")
        => IF MayBeName(tokens'[3])
           THEN /\ command'.Name = tokens'[3].Value
                /\ command'.ObjectType = tokens'[2].Value
           ELSE FailedWith(ObjectNameError)]_vars

\* the name rule with the object type as parseObjectType reads it: the
\* token after the last word of the object type is the name when it is a
\* string (empty or not) or may stand as a name, else the name is missing
NameFollowsParsedObjectType ==
    [][(ParsedAfterAction /\ tokens'[2].Type \in TypeKeywords \cup {"TokenIdentifier"})
        => LET n == RunOf(tokens', 3, TypeKeywords \ FirstOnlyKeywords) + 1
           IN IF tokens'[n].Type = "TokenString" \/ MayBeName(tokens'[n])
              THEN /\ command'.Name = tokens'[n].Value
                   /\ command'.ObjectType = ValuesJoined(tokens', 2, n - 1)
              ELSE FailedWith(ObjectNameError)]_vars

\* the step read a line that parsed into a command
ParsedCommand == ParsedAfterAction /\ command' # NoCommand

\* the first position from i on of a parameter flag or of end-of-input
RECURSIVE FlagOrEnd(_, _)
FlagOrEnd(toks, i) ==
    IF toks[i].Type \in {"TokenParameterFlag", "TokenEOF"} THEN i
    ELSE FlagOrEnd(toks, i + 1)

\* the values of toks[i..j]
ValuesOf(toks, i, j) == [k \in 1..(j - i + 1) |-> toks[i + k - 1].Value]

\* C24: Arguments is the sequence of the values of all tokens between the
\* object name and the first parameter flag (end-of-input when there is no
\* flag), in order, whatever their class, an empty quoted string included.
C24_ArgumentsAreTokensUpToFirstFlag ==
    [][ParsedCommand
        => LET n == NameIndex(command')
           IN command'.Arguments
                = ValuesOf(tokens', n + 1, FlagOrEnd(tokens', n + 1) - 1)]_vars

\* the last position of the run from i on of tokens that are no flag and
\* not end-of-input and have a value
RECURSIVE ArgumentsEnd(_, _)
ArgumentsEnd(toks, i) ==
    IF MayBeName(toks[i]) THEN ArgumentsEnd(toks, i + 1) ELSE i - 1

\* the arguments are the values up to the first flag, end-of-input or
\* empty quoted string
ArgumentsStopAtEmptyString ==
    [][ParsedCommand
        => LET n == NameIndex(command')
           IN command'.Arguments
                = ValuesOf(tokens', n + 1, ArgumentsEnd(tokens', n + 1))]_vars

\* the classes of the tokens that parseParameters takes as a flag's value
ValueTokens == {"TokenString", "TokenIdentifier", "TokenNumber", "TokenIP"}

\* the value C25 gives the flag at position i
ValueAfter(toks, i) ==
    IF toks[i + 1].Type \in ValueTokens THEN toks[i + 1].Value ELSE << >>

\* the positions of the parameter flags of the line
FlagsOf(toks) == {i \in 1..Len(toks) : toks[i].Type = "TokenParameterFlag"}

\* C25: each parameter flag of the line is recorded with the value of the
\* token after it when that token is a string, identifier, number or IP
\* literal and with the empty value otherwise, the last occurrence of a
\* flag deciding its value.
C25_FlagValueIsNextValueToken ==
    [][ParsedCommand
        => \A i \in FlagsOf(tokens') :
              (\A j \in FlagsOf(tokens') : tokens'[j].Value = tokens'[i].Value => j <= i)
                 => /\ tokens'[i].Value \in DOMAIN command'.Parameters
                    /\ command'.Parameters[tokens'[i].Value] = ValueAfter(tokens', i)]_vars

\* the end of the unbroken run of flags, each with its value token if it has
\* one, that begins at i: the position of the first token not read
RECURSIVE ParametersEnd(_, _)
ParametersEnd(toks, i) ==
    IF toks[i].Type # "TokenParameterFlag" THEN i
    ELSE IF toks[i + 1].Type \in ValueTokens THEN ParametersEnd(toks, i + 2)
    ELSE ParametersEnd(toks, i + 1)

\* the position at which ParseCommand stops reading the line
StopsAt(toks, cmd) ==
    ParametersEnd(toks, NameIndex(cmd) + 1 + Len(cmd.Arguments))

\* C25 for the flags that parseParameters reads
ReadFlagValueIsNextValueToken ==
    [][ParsedCommand
        => LET read == {i \in FlagsOf(tokens') : i < StopsAt(tokens', command')}
           IN /\ DOMAIN command'.Parameters = {tokens'[i].Value : i \in read}
              /\ \A i \in read :
                    (\A j \in read : tokens'[j].Value = tokens'[i].Value => j <= i)
                       => command'.Parameters[tokens'[i].Value] = ValueAfter(tokens', i)]_vars

\* C27: when ParseCommand succeeds it has read every token of the line up
\* to end-of-input, so every parameter flag of the line is a key of
\* Parameters.
C27_EveryTokenIsRead ==
    [][ParsedCommand
        => /\ StopsAt(tokens', command') = Len(tokens')
           /\ \A i \in FlagsOf(tokens') :
                 tokens'[i].Value \in DOMAIN command'.Parameters]_vars

\* new is old with exactly one entry added at its end
AppendsOne(old, new) ==
    /\ Len(new) = Len(old) + 1
    /\ SubSeq(new, 1, Len(old)) = old

\* the collections that are not after the step what they were before it
ChangedCollections ==
    {c \in {"servers", "vservers", "serviceGroupDefs", "serviceGroups", "vserverBindings"} :
        CASE c = "servers" -> servers' # servers
          [] c = "vservers" -> vservers' # vservers
          [] c = "serviceGroupDefs" -> serviceGroupDefs' # serviceGroupDefs
          [] c = "serviceGroups" -> serviceGroups' # serviceGroups
          [] c = "vserverBindings" -> vserverBindings' # vserverBindings}

\* the action of the line just read, in lower case; << >> if none was parsed
ActionOfLine == ToLower(command'.Action)

\* C26: processing one line changes at most one of the five collections,
\* and only by appending exactly one entry at its end; an add line never
\* changes the two binding collections, a bind line never changes the
\* servers, the virtual servers or the service-group definitions.
C26_LineAppendsAtMostOneEntry ==
    [][Scanned
        => /\ Cardinality(ChangedCollections) <= 1
           /\ servers' = servers \/ AppendsOne(servers, servers')
           /\ vservers' = vservers \/ AppendsOne(vservers, vservers')
           /\ serviceGroupDefs' = serviceGroupDefs
                 \/ AppendsOne(serviceGroupDefs, serviceGroupDefs')
           /\ serviceGroups' = serviceGroups \/ AppendsOne(serviceGroups, serviceGroups')
           /\ vserverBindings' = vserverBindings
                 \/ AppendsOne(vserverBindings, vserverBindings')
           /\ ActionOfLine = ActionAdd => UNCHANGED <<serviceGroups, vserverBindings>>
           /\ ActionOfLine = ActionBind
                 => UNCHANGED <<servers, vservers, serviceGroupDefs>>
           /\ ActionOfLine \notin {ActionAdd, ActionBind} => CollectionsUnchanged]_vars

\* two lines were read: an add line that appended a second server to a list
\* that already held a different one
C26_Witness ==
    /\ lineNumber = 2
    /\ pc = "scan"
    /\ Len(servers) = 2
    /\ servers[1] # servers[2]
    /\ command.Action = ActionAdd
    /\ vservers = << >> /\ serviceGroupDefs = << >>
    /\ serviceGroups = << >> /\ vserverBindings = << >>

\* the first word of the trimmed line
FirstWord(line) == Split(line, " ")[1]

\* the line with its first word in lower case
WithLowerAction(line) ==
    ToLower(FirstWord(line)) \o SubSeq(line, Len(FirstWord(line)) + 1, Len(line))

\* the line just read begins with add, bind or set written with one or more
\* upper-case letters
UpperCaseAction ==
    /\ Scanned
    /\ HandedToParser
    /\ ToLower(FirstWord(CurrentLine')) \in {ActionAdd, ActionBind, ActionSet}
    /\ FirstWord(CurrentLine') # ToLower(FirstWord(CurrentLine'))

\* C28: an action written with an upper-case letter is recognised by the
\* tokenizer as the action keyword, and the line parses as the same line
\* with the action in lower case does (same error, or the same command but
\* for Action, which keeps the written case); the run loop then treats it
\* as an unknown action: no error, and no entry added to any collection.
C28_UpperCaseActionAddsNothing ==
    [][UpperCaseAction
        => LET low == ParseF5Command(WithLowerAction(CurrentLine'))
           IN /\ tokens'[1].Type = KeywordTable[ToLower(FirstWord(CurrentLine'))]
              /\ tokens'[1].Value = FirstWord(CurrentLine')
              /\ CollectionsUnchanged
              /\ IF low.isNil
                 THEN /\ command' = NoCommand
                      /\ pc' = "done"
                      /\ ret' = Outcome(Nil, Nil, Nil, Nil, Nil,
                                        LineError(lineNumber', low.err))
                 ELSE /\ command' = [low.cmd EXCEPT !.Action = FirstWord(CurrentLine')]
                      /\ StillScanning]_vars

\* the line ADD server web01 10.0.0.1 was read: it parsed into a command
\* with the action ADD, a name and an address, and no server was added
C28_Witness ==
    /\ lineNumber = 1
    /\ pc = "scan"
    /\ command.Action = <<"A","D","D">>
    /\ NormalizeObjectType(command.ObjectType) = TypeServer
    /\ command.Name # << >>
    /\ Len(command.Arguments) >= 1
    /\ servers = << >>

(***************************************************************************)
(* The two generators compared (GenSpec).                                  *)
(***************************************************************************)
\* C29: for a name that has both a virtual server and a generated Traefik
\* service, the service comment of GenerateTraefikConfig equals the comment
\* of the mapping entry of GenerateMappingConfig for that virtual server.
C29_GeneratorsChooseSameComment ==
    Generated
        => \A i \in 1..Len(vservers) :
              vservers[i].Name \in DOMAIN Services
                 => Services[vservers[i].Name].Comment = Entries[i].Comment

\* the comments agree for a name all of whose bindings name a known server
GeneratorsAgreeWhenAllResolvable ==
    Generated
        => \A i \in 1..Len(vservers) :
              (/\ vservers[i].Name \in DOMAIN Services
               /\ \A k \in 1..Len(serviceGroups) :
                     serviceGroups[k].Name = vservers[i].Name
                        => Resolvable(serviceGroups[k]))
                 => Services[vservers[i].Name].Comment = Entries[i].Comment

(***************************************************************************)
(* The conversion of the brace dialect (F5Spec).                           *)
(***************************************************************************)
Converted == pc = "converted"

ServerNames == {servers[i].Name : i \in 1..Len(servers)}

\* C30: in the output of convertF5ToTraefikFormat every service-group
\* binding's ServerName is the Name of some entry of the returned server
\* list, members whose address matches no node and addresses shared by
\* several pools included.
C30_BindingsNameReturnedServers ==
    Converted
        => \A k \in 1..Len(serviceGroups) : serviceGroups[k].ServerName \in ServerNames

\* two virtuals with different pools were converted: both groups bind the
\* address 10.0.0.2, which is no node's, and one group binds a node's name
C30_Witness ==
    /\ Converted
    /\ Len(nodes) >= 1
    /\ \A i \in 1..Len(nodes) : nodes[i].Address # Addr2
    /\ \E j, k \in 1..Len(serviceGroups) :
          /\ serviceGroups[j].Name # serviceGroups[k].Name
          /\ serviceGroups[j].ServerName = Addr2
          /\ serviceGroups[k].ServerName = Addr2
    /\ \E k \in 1..Len(serviceGroups) :
          serviceGroups[k].ServerName = TrimPrefix(nodes[Len(nodes)].Name, Common)
    /\ Cardinality({i \in 1..Len(servers) : servers[i].Name = Addr2}) = 1

=============================================================================
